---- MODULE Spec2Model ----
(***************************************************************************)
(* Model of the roundtable discussion engine (src/roundtable/engine.ts),   *)
(* its role protocol (src/roundtable/protocol.ts) and its context builder  *)
(* (src/roundtable/context.ts).                                            *)
(*                                                                         *)
(* runRoundtable is an async generator.  Its position is pc; every action  *)
(* of the engine is the code between two suspension points (a yield or an  *)
(* await).  `events` is the sequence of events yielded so far, i.e. handed *)
(* to the consumer.  Provider streams and the withTimeout timers are the   *)
(* environment: they act on the call records while the generator awaits.   *)
(* Strings that the engine concatenates are sequences of characters.       *)
(***************************************************************************)
EXTENDS Integers, Sequences, FiniteSets, TLC

\* ---------------------------------------------------------------- bounds
MaxAgents == 3
MaxRounds == 2
MaxSize == 6
\* the largest maxRetries argument given to withRetry
MaxRetriesArg == 5

IsPrefix(a, b) == Len(a) <= Len(b) /\ \A i \in 1..Len(a) : a[i] = b[i]

\* ------------------------------------------------------------ input sets
Roles == {"panelist", "moderator", "synthesizer"}
AgentIds == <<"a1", "a2", "a3", "a4", "a5">>
AgentNames == <<"Ada", "Ben", "Cyd", "Dee", "Eli">>
Chunks == {<<"a">>, <<"b">>}
\* the fragment sequences a provider stream can deliver before it ends
Streams == {<<>>, <<<<"a">>, <<"b">>>>}
Topic == "X"

ModelOf(i) == IF i % 2 = 1 THEN "claude-m" ELSE "gpt-m"

AgentDefinition(i, r) ==
  [id |-> AgentIds[i], name |-> AgentNames[i], role |-> r, model |-> ModelOf(i)]

RoleSeqs == UNION {[1..n -> Roles] : n \in 0..MaxAgents}

Undefined == [id |-> "", name |-> "", role |-> "", model |-> ""]

\* --------------------------------------------------------- role protocol
getPanelists(agents) == SelectSeq(agents, LAMBDA a : a.role = "panelist")

\* the configs explored: up to MaxAgents agents of any roles, 1..MaxRounds
\* rounds, of size (agents times rounds) at most MaxSize, agentTimeout absent.
\* agentTimeout is <<>> when absent, else <<t>> with t the seconds in tenths.
RoundtableConfig ==
  {cfg \in {[agents |-> [i \in 1..Len(rs) |-> AgentDefinition(i, rs[i])],
             maxRounds |-> m, agentTimeout |-> <<>>] :
               rs \in RoleSeqs, m \in 1..MaxRounds} :
     Len(cfg.agents) * cfg.maxRounds <= MaxSize}

\* variant: the last synthesizer of the list instead of the first (findLast)
getSynthesizer_last(agents) ==
  IF \E i \in 1..Len(agents) : agents[i].role = "synthesizer"
  THEN agents[CHOOSE i \in 1..Len(agents) :
                /\ agents[i].role = "synthesizer"
                /\ \A j \in (i + 1)..Len(agents) : agents[j].role # "synthesizer"]
  ELSE Undefined

getSynthesizer(agents) ==
  IF \E i \in 1..Len(agents) : agents[i].role = "synthesizer"
  THEN agents[CHOOSE i \in 1..Len(agents) :
                /\ agents[i].role = "synthesizer"
                /\ \A j \in 1..(i - 1) : agents[j].role # "synthesizer"]
  ELSE Undefined

\* variant: the second round is run concurrently too
isConcurrentRound_le2(r) == r <= 2

isConcurrentRound(r) == r = 1

\* ------------------------------------------------------- context builder
RECURSIVE Flatten(_)
Flatten(ss) == IF ss = <<>> THEN <<>> ELSE Head(ss) \o Flatten(Tail(ss))

\* variant: a round seen for the first time is put in front
AddToRound_front(secs, e) ==
  IF \E i \in 1..Len(secs) : secs[i].round = e.round
  THEN [i \in 1..Len(secs) |->
          IF secs[i].round = e.round
          THEN [secs[i] EXCEPT !.lines =
                  Append(@, [agentName |-> e.agentName, response |-> e.response])]
          ELSE secs[i]]
  ELSE <<[round |-> e.round,
          lines |-> <<[agentName |-> e.agentName, response |-> e.response]>>]>>
       \o secs

\* byRound.get(entry.round) ?? [] ; list.push(entry) ; byRound.set(...)
AddToRound(secs, e) ==
  IF \E i \in 1..Len(secs) : secs[i].round = e.round
  THEN [i \in 1..Len(secs) |->
          IF secs[i].round = e.round
          THEN [secs[i] EXCEPT !.lines =
                  Append(@, [agentName |-> e.agentName, response |-> e.response])]
          ELSE secs[i]]
  ELSE Append(secs, [round |-> e.round,
                     lines |-> <<[agentName |-> e.agentName, response |-> e.response]>>])

RECURSIVE GroupByRound(_, _)
GroupByRound(secs, entries) ==
  IF entries = <<>> THEN secs
  ELSE GroupByRound(AddToRound(secs, Head(entries)), Tail(entries))

\* The rendered text, kept as its sections: one per round in Map insertion
\* order, each a heading "### Round r" and the lines "**name**: response".
formatTranscript(entries) == GroupByRound(<<>>, entries)

\* the characters of the model ids in use
Chars(model) ==
  CASE model = "claude-m" -> <<"c", "l", "a", "u", "d", "e", "-", "m">>
    [] model = "claudia-m" -> <<"c", "l", "a", "u", "d", "i", "a", "-", "m">>
    [] model = "gpt-m" -> <<"g", "p", "t", "-", "m">>
    [] OTHER -> <<>>

\* variant: the prefix tested is 'claud'
isAnthropicModel_claud(model) ==
  IsPrefix(<<"c", "l", "a", "u", "d">>, Chars(model))

\* model.startsWith('claude-')
isAnthropicModel(model) ==
  IsPrefix(<<"c", "l", "a", "u", "d", "e", "-">>, Chars(model))

withCache(msg, model) ==
  IF isAnthropicModel(model) THEN [msg EXCEPT !.cache_control = TRUE] ELSE msg

Message(role, kind, r, secs) ==
  [role |-> role, kind |-> kind, topic |-> Topic, round |-> r,
   sections |-> secs, cache_control |-> FALSE]

\* variant: the turn message leaves out the entries of the current round
buildPanelistMessages_nocurrent(agent, transcript_, currentRound) ==
  LET systemMsg == withCache(Message("system", "system", 0, <<>>), agent.model)
      priorEntries == SelectSeq(transcript_, LAMBDA e : e.round < currentRound)
  IN IF Len(priorEntries) = 0
     THEN <<systemMsg, Message("user", "simple", 0, <<>>)>>
     ELSE <<systemMsg,
            withCache(Message("user", "accumulated", 0, formatTranscript(priorEntries)),
                      agent.model),
            Message("user", "turn", currentRound, <<>>)>>

buildPanelistMessages(agent, transcript_, currentRound) ==
  LET systemMsg == withCache(Message("system", "system", 0, <<>>), agent.model)
      priorEntries == SelectSeq(transcript_, LAMBDA e : e.round < currentRound)
      currentRoundEntries == SelectSeq(transcript_, LAMBDA e : e.round = currentRound)
  IN IF Len(priorEntries) = 0 /\ Len(currentRoundEntries) = 0
     THEN <<systemMsg, Message("user", "simple", 0, <<>>)>>
     ELSE <<systemMsg,
            withCache(Message("user", "accumulated", 0, formatTranscript(priorEntries)),
                      agent.model),
            Message("user", "turn", currentRound, formatTranscript(currentRoundEntries))>>

\* variant: only the entries of the last round are rendered
buildSynthesizerMessages_lastround(agent, transcript_) ==
  <<withCache(Message("system", "system", 0, <<>>), agent.model),
    withCache(Message("user", "synthesis", 0,
                      formatTranscript(SelectSeq(transcript_,
                        LAMBDA e : e.round = transcript_[Len(transcript_)].round))),
              agent.model)>>

buildSynthesizerMessages(agent, transcript_) ==
  <<withCache(Message("system", "system", 0, <<>>), agent.model),
    withCache(Message("user", "synthesis", 0, formatTranscript(transcript_)), agent.model)>>

\* ----------------------------------------------------------------- types
\* variant: the estimate is rounded down
estimateTokens_floor(text) == (2 * Len(text)) \div 7

\* Math.ceil(text.length / 3.5)
estimateTokens(text) == (2 * Len(text) + 6) \div 7

NoStats == [totalRounds |-> 0, totalAgents |-> 0, totalTokensEstimate |-> 0]

Blank ==
  [type |-> "", agentId |-> "", agentName |-> "", round |-> 0, mode |-> "",
   text |-> <<>>, model |-> "", error |-> <<>>, topic |-> "", agents |-> <<>>,
   maxRounds |-> 0, stats |-> NoStats]

TranscriptEntry(agent, r, response) ==
  [agentId |-> agent.id, agentName |-> agent.name, round |-> r,
   response |-> response, model |-> agent.model]


\* ---------------------------------------------------------------- events
RoundtableStart(names, m) ==
  [Blank EXCEPT !.type = "roundtable_start", !.topic = Topic, !.agents = names,
                !.maxRounds = m]

RoundStart(r) ==
  [Blank EXCEPT !.type = "round_start", !.round = r,
                !.mode = IF isConcurrentRound(r) THEN "concurrent" ELSE "sequential"]

AgentStart(agent, r) ==
  [Blank EXCEPT !.type = "agent_start", !.agentId = agent.id,
                !.agentName = agent.name, !.round = r]

AgentChunk(agent, chunk) ==
  [Blank EXCEPT !.type = "agent_chunk", !.agentId = agent.id, !.text = chunk]

AgentDone(agent, r, response) ==
  [Blank EXCEPT !.type = "agent_done", !.agentId = agent.id,
                !.agentName = agent.name, !.text = response, !.round = r,
                !.model = agent.model]

AgentError(agent, reason) ==
  [Blank EXCEPT !.type = "error", !.agentId = agent.id,
                !.error = <<"Agent", agent.name, "failed">> \o reason]

RoundEnd(r) == [Blank EXCEPT !.type = "round_end", !.round = r]

SynthesisStart(agent) ==
  [Blank EXCEPT !.type = "synthesis_start", !.agentName = agent.name,
                !.model = agent.model]

SynthesisDone(answer) == [Blank EXCEPT !.type = "synthesis_done", !.text = answer]

\* variant: the completion event is built without the synthesized answer
RoundtableDone_noanswer(answer, st) ==
  [Blank EXCEPT !.type = "roundtable_done", !.text = <<>>, !.stats = st]

RoundtableDone(answer, st) ==
  [Blank EXCEPT !.type = "roundtable_done", !.text = answer, !.stats = st]

FatalError(msg) == [Blank EXCEPT !.type = "error", !.error = msg]

\* ----------------------------------------------------------------- state
VARIABLES
  config,       \* the RoundtableConfig passed to runRoundtable
  pc,           \* position of the generator
  round,        \* loop variable of the round loop
  idx,          \* position in the panelist list of the current loop iteration
  chunkIdx,     \* position in the buffered chunks being replayed (round 1)
  events,       \* events yielded so far
  transcript,   \* TranscriptEntry[]
  totalTokens,
  calls,        \* every bounded invocation started, in start order
  results,      \* the array Promise.allSettled resolves with
  settleOrder,  \* order in which the round-1 invocations settled
  abandoned,    \* provider streams still running after their timeout fired
  pulls,        \* next() calls the consumer has made on the generator
  router,       \* providers/router.ts: providerCache, and the number of
                \* provider instances its factories have built
  recorder,     \* history/store.ts: the DiscussionRecorder and its rows
  caller,       \* the command or tool that runs the discussion
  terminal,     \* output/terminal.ts: currentAgentId and what was written
  retry         \* providers/retry.ts: one withRetry call

\* the state outside the engine
host == <<recorder, caller, terminal, retry>>

vars == <<config, pc, round, idx, chunkIdx, events, transcript, totalTokens,
          calls, results, settleOrder, abandoned, pulls, router, host>>

\* new DiscussionRecorder(...): a discussions row whose synthesis and whose
\* duration_ms, total_tokens are NULL (<<>>), and no messages rows; handled
\* lists the events handleEvent was called with
NewRecorder ==
  [handled |-> <<>>, messages |-> <<>>, synthesis |-> <<>>, totals |-> <<>>]

\* let currentAgentId = null; rendered counts the events the loop was given
NewTerminal == [currentAgentId |-> "", rendered |-> 0, out |-> <<>>]

\* taken counts the events the caller's for await loop has received
\* preset is the preset file found (<<>> none), rounds the --rounds flag or
\* the maxRounds argument (<<>> absent)
NoCaller ==
  [entry |-> "", stage |-> "", preset |-> <<>>, rounds |-> <<>>, taken |-> 0,
   transcript |-> <<>>, finalAnswer |-> <<>>, result |-> <<>>]

\* no withRetry call is in progress
NoRetry ==
  [maxRetries |-> 0, attempt |-> 0, pc |-> "", running |-> 0, lastError |-> <<>>,
   log |-> <<>>, settled |-> <<>>]

\* runRoundtable driven by a consumer that is not modelled further
Standalone ==
  /\ recorder = NewRecorder
  /\ caller = NoCaller
  /\ terminal = NewTerminal
  /\ retry = NoRetry

panelists == getPanelists(config.agents)
synthesizer == getSynthesizer(config.agents)
N == Len(panelists)

Init ==
  /\ config \in RoundtableConfig
  /\ pc = "start"
  /\ round = 0
  /\ idx = 0
  /\ chunkIdx = 0
  /\ events = <<>>
  /\ transcript = <<>>
  /\ totalTokens = 0
  /\ calls = <<>>
  /\ results = <<>>
  /\ settleOrder = <<>>
  /\ abandoned = 0
  /\ pulls = 0
  /\ router = [providerCache |-> [m \in {} |-> 0], created |-> 0]
  /\ Standalone

\* ------------------------------------------- bounded invocation (withTimeout)
DEFAULT_AGENT_TIMEOUT_S == 120

\* variant: the configured agentTimeout is ignored
timeoutMs_default == DEFAULT_AGENT_TIMEOUT_S * 1000

\* (config.agentTimeout ?? DEFAULT_AGENT_TIMEOUT_S) * 1000
timeoutMs ==
  IF config.agentTimeout = <<>>
  THEN DEFAULT_AGENT_TIMEOUT_S * 1000
  ELSE config.agentTimeout[1] * 100

\* (ms / 1000).toFixed(0): the nearest integer, the larger one on a tie
toFixed0(ms) == (ms + 500) \div 1000

\* `${label} timed out after ${(timeoutMs / 1000).toFixed(0)}s`,
\* label = `${agent.name} (${agent.model})`
TimeoutReason(agent) ==
  <<agent.name, agent.model, "timed out after", ToString(toFixed0(timeoutMs)), "s">>
ProviderReason == <<"provider error">>

\* variant: the lookup is skipped, every call builds and stores an instance
getProvider_nolookup(rt, model) ==
  [router |-> [providerCache |->
                 [m \in DOMAIN rt.providerCache \cup {model} |->
                    IF m = model THEN rt.created + 1 ELSE rt.providerCache[m]],
               created |-> rt.created + 1],
   provider |-> rt.created + 1]

\* getProvider(model) on router state rt: the cached instance, or a new one
\* built by the factory and stored; instances are numbered as they are built
getProvider(rt, model) ==
  IF model \in DOMAIN rt.providerCache
  THEN [router |-> rt, provider |-> rt.providerCache[model]]
  ELSE [router |-> [providerCache |->
                      [m \in DOMAIN rt.providerCache \cup {model} |->
                         IF m = model THEN rt.created + 1 ELSE rt.providerCache[m]],
                    created |-> rt.created + 1],
        provider |-> rt.created + 1]

\* streamAgentWithTimeout / withTimeout(work(), ...): a pending invocation
Invocation(agent, r, messages) ==
  [agentId |-> agent.id, round |-> r, messages |-> messages, at |-> Len(events),
   promise |-> "pending", parts |-> <<>>, reason |-> <<>>,
   provider |-> getProvider(router, agent.model).provider]

NoteSettled(c) ==
  settleOrder' = IF pc = "join" THEN Append(settleOrder, c) ELSE settleOrder

\* for await (const chunk of provider.stream(...)) { parts.push(chunk); ... }
StreamChunk(c, chunk) ==
  /\ calls[c].promise = "pending"
  /\ \E st \in Streams : IsPrefix(Append(calls[c].parts, chunk), st)
  /\ calls' = [calls EXCEPT ![c].parts = Append(@, chunk)]
  /\ UNCHANGED <<host, router, pulls, config, pc, round, idx, chunkIdx, events, transcript,
                 totalTokens, results, settleOrder, abandoned>>

\* the stream ends: work() returns, withTimeout resolves with the value
StreamEnd(c) ==
  /\ calls[c].promise = "pending"
  /\ calls[c].parts \in Streams
  /\ calls' = [calls EXCEPT ![c].promise = "fulfilled"]
  /\ NoteSettled(c)
  /\ UNCHANGED <<host, router, pulls, config, pc, round, idx, chunkIdx, events, transcript,
                 totalTokens, results, abandoned>>

\* variant: fail-fast join (Promise.all): a failure rejects the pending siblings
StreamFail_failfast(c) ==
  /\ calls[c].promise = "pending"
  /\ calls' = [d \in DOMAIN calls |->
                 IF d = c \/ (pc = "join" /\ calls[d].promise = "pending")
                 THEN [calls[d] EXCEPT !.promise = "rejected", !.parts = <<>>,
                                       !.reason = ProviderReason]
                 ELSE calls[d]]
  /\ settleOrder' =
       IF pc = "join"
       THEN settleOrder \o <<c>> \o
            SelectSeq([d \in DOMAIN calls |-> d],
                      LAMBDA d : d # c /\ calls[d].promise = "pending")
       ELSE settleOrder
  /\ UNCHANGED <<host, router, pulls, config, pc, round, idx, chunkIdx, events, transcript,
                 totalTokens, results, abandoned>>

\* getProvider or the stream throws: withTimeout rejects with that failure
StreamFail(c) ==
  /\ calls[c].promise = "pending"
  /\ calls' = [calls EXCEPT ![c].promise = "rejected", ![c].parts = <<>>,
                            ![c].reason = ProviderReason]
  /\ NoteSettled(c)
  /\ UNCHANGED <<host, router, pulls, config, pc, round, idx, chunkIdx, events, transcript,
                 totalTokens, results, abandoned>>

AgentById(id) ==
  config.agents[CHOOSE i \in 1..Len(config.agents) : config.agents[i].id = id]

\* variant: the timer is not cleared and its rejection overrides the value
Timeout_uncleared(c) ==
  /\ calls[c].promise \in {"pending", "fulfilled"}
  /\ calls' = [calls EXCEPT ![c].promise = "rejected", ![c].parts = <<>>,
                            ![c].reason = TimeoutReason(AgentById(calls[c].agentId))]
  /\ abandoned' = abandoned + 1
  /\ NoteSettled(c)
  /\ UNCHANGED <<host, router, pulls, config, pc, round, idx, chunkIdx, events, transcript,
                 totalTokens, results>>

\* variant: only panelist invocations are given a timer
Timeout_panelists(c) ==
  /\ calls[c].promise = "pending"
  /\ calls[c].agentId # synthesizer.id
  /\ calls' = [calls EXCEPT ![c].promise = "rejected", ![c].parts = <<>>,
                            ![c].reason = TimeoutReason(AgentById(calls[c].agentId))]
  /\ abandoned' = abandoned + 1
  /\ NoteSettled(c)
  /\ UNCHANGED <<host, router, pulls, config, pc, round, idx, chunkIdx, events, transcript,
                 totalTokens, results>>

\* the timer fires first: withTimeout rejects, the stream is left running
Timeout(c) ==
  /\ calls[c].promise = "pending"
  /\ calls' = [calls EXCEPT ![c].promise = "rejected", ![c].parts = <<>>,
                            ![c].reason = TimeoutReason(AgentById(calls[c].agentId))]
  /\ abandoned' = abandoned + 1
  /\ NoteSettled(c)
  /\ UNCHANGED <<host, router, pulls, config, pc, round, idx, chunkIdx, events, transcript,
                 totalTokens, results>>

\* an abandoned stream ends or fails; nobody listens
AbandonedSettles ==
  /\ abandoned > 0
  /\ abandoned' = abandoned - 1
  /\ UNCHANGED <<host, router, pulls, config, pc, round, idx, chunkIdx, events, transcript,
                 totalTokens, calls, results, settleOrder>>

\* ------------------------------------------------------------ runRoundtable
Yield(e) == events' = Append(events, e)

\* the generator runs only while a next() call is outstanding: the k-th call
\* resumes it after the (k-1)-th yield and lasts until the k-th
Resumed == pulls > Len(events)

\* for await (const event of runRoundtable(...)): the consumer asks for the
\* next event once it has been handed the previous one; it may stop asking
Pull ==
  /\ pulls = Len(events)
  /\ pc # "done"
  /\ pulls' = pulls + 1
  /\ UNCHANGED <<host, router, config, pc, round, idx, chunkIdx, events, transcript,
                 totalTokens, calls, results, settleOrder, abandoned>>

\* if (panelists.length === 0) { yield error; return; }
RejectNoPanelists ==
  /\ pc = "start"
  /\ Resumed
  /\ Len(panelists) = 0
  /\ Yield(FatalError(<<"No panelist agents defined in config">>))
  /\ pc' = "done"
  /\ UNCHANGED <<host, router, pulls, config, round, idx, chunkIdx, transcript, totalTokens, calls,
                 results, settleOrder, abandoned>>

\* variant: the error is yielded but the return is missing
RejectNoSynthesizer_noreturn ==
  /\ pc = "start"
  /\ Resumed
  /\ Len(panelists) # 0
  /\ synthesizer = Undefined
  /\ Yield(FatalError(<<"No synthesizer agent defined in config">>))
  /\ round' = 1
  /\ pc' = "loop"
  /\ UNCHANGED <<host, router, pulls, config, idx, chunkIdx, transcript, totalTokens, calls,
                 results, settleOrder, abandoned>>

\* if (!synthesizer) { yield error; return; }
RejectNoSynthesizer ==
  /\ pc = "start"
  /\ Resumed
  /\ Len(panelists) # 0
  /\ synthesizer = Undefined
  /\ Yield(FatalError(<<"No synthesizer agent defined in config">>))
  /\ pc' = "done"
  /\ UNCHANGED <<host, router, pulls, config, round, idx, chunkIdx, transcript, totalTokens, calls,
                 results, settleOrder, abandoned>>

\* yield roundtable_start; transcript = []; totalTokens = 0; round = 1
YieldRoundtableStart ==
  /\ pc = "start"
  /\ Resumed
  /\ Len(panelists) # 0
  /\ synthesizer # Undefined
  /\ Yield(RoundtableStart(
       [i \in 1..(N + 1) |-> IF i <= N THEN panelists[i].name ELSE synthesizer.name],
       config.maxRounds))
  /\ transcript' = <<>>
  /\ totalTokens' = 0
  /\ round' = 1
  /\ pc' = "loop"
  /\ UNCHANGED <<host, router, pulls, config, idx, chunkIdx, calls, results, settleOrder, abandoned>>

\* round <= config.maxRounds: yield round_start
YieldRoundStart ==
  /\ pc = "loop"
  /\ Resumed
  /\ round <= config.maxRounds
  /\ Yield(RoundStart(round))
  /\ pc' = IF isConcurrentRound(round) THEN "fanout" ELSE "turn"
  /\ idx' = 1
  /\ UNCHANGED <<host, router, pulls, config, round, chunkIdx, transcript, totalTokens, calls,
                 results, settleOrder, abandoned>>

\* the router once the map callbacks of panelists 1..k have called getProvider,
\* those of the panelists in F having thrown
RECURSIVE RouterAt(_, _)
RouterAt(k, F) ==
  IF k = 0 THEN router
  ELSE IF k \in F THEN RouterAt(k - 1, F)
  ELSE getProvider(RouterAt(k - 1, F), panelists[k].model).router

\* ---- round 1: Promise.allSettled(panelists.map(async (agent) => ...))
FanOut ==
  /\ pc = "fanout"
  /\ Resumed
  /\ calls' = calls \o
       [i \in 1..N |->
          [Invocation(panelists[i], round,
                      buildPanelistMessages(panelists[i], transcript, round))
             EXCEPT !.provider =
               getProvider(RouterAt(i - 1, {}), panelists[i].model).provider]]
  /\ router' = RouterAt(N, {})
  /\ pc' = "join"
  /\ UNCHANGED <<host, pulls, config, round, idx, chunkIdx, events, transcript, totalTokens,
                 results, settleOrder, abandoned>>

\* the call of panelist i of the concurrent round: the last N calls started
ConcurrentCall(i) == Len(calls) - N + i

\* variant: the join resolves as soon as one invocation has settled
AllSettled_any == \E i \in 1..N : calls[ConcurrentCall(i)].promise # "pending"

AllSettled == \A i \in 1..N : calls[ConcurrentCall(i)].promise # "pending"

\* variant: the callback buffer misses the last fragment
ResultAt_short(i) ==
  LET c == calls[ConcurrentCall(i)]
  IN [status |-> c.promise, agent |-> panelists[i], response |-> Flatten(c.parts),
      chunks |-> IF c.parts = <<>> THEN <<>> ELSE SubSeq(c.parts, 1, Len(c.parts) - 1),
      reason |-> c.reason]

\* results[i]: the settled outcome in slot i of the allSettled array; only a
\* fulfilled one has a value { agent, response, chunks }
ResultAt(i) ==
  LET c == calls[ConcurrentCall(i)]
  IN [status |-> c.promise, agent |-> panelists[i],
      response |-> IF c.promise = "fulfilled" THEN Flatten(c.parts) ELSE <<>>,
      chunks |-> IF c.promise = "fulfilled" THEN c.parts ELSE <<>>,
      reason |-> c.reason]

Join ==
  /\ pc = "join"
  /\ Resumed
  /\ AllSettled
  /\ results' = [i \in 1..N |-> ResultAt(i)]
  /\ idx' = 1
  /\ pc' = "emit"
  /\ UNCHANGED <<host, router, pulls, config, round, chunkIdx, events, transcript, totalTokens,
                 calls, settleOrder, abandoned>>

\* variant: the agents are taken in the order their invocations settled
EmitAgent_completion(i) == panelists[settleOrder[i] - (Len(calls) - N)]

\* const agent = panelists[i]
EmitAgent(i) == panelists[i]

AfterTurn(loopPc) ==
  /\ idx' = idx + 1
  /\ pc' = IF idx + 1 <= N THEN loopPc ELSE "round_end"

YieldAgentStartConcurrent ==
  /\ pc = "emit"
  /\ Resumed
  /\ results[idx].status = "fulfilled"
  /\ Yield(AgentStart(EmitAgent(idx), round))
  /\ chunkIdx' = 1
  /\ pc' = "replay"
  /\ UNCHANGED <<host, router, pulls, config, round, idx, transcript, totalTokens, calls, results,
                 settleOrder, abandoned>>

YieldAgentChunk ==
  /\ pc = "replay"
  /\ Resumed
  /\ chunkIdx <= Len(results[idx].chunks)
  /\ Yield(AgentChunk(EmitAgent(idx), results[idx].chunks[chunkIdx]))
  /\ chunkIdx' = chunkIdx + 1
  /\ UNCHANGED <<host, router, pulls, config, pc, round, idx, transcript, totalTokens, calls,
                 results, settleOrder, abandoned>>

\* variant: the transcript.push is missing
RecordConcurrent_nopush ==
  /\ pc = "replay"
  /\ Resumed
  /\ chunkIdx > Len(results[idx].chunks)
  /\ totalTokens' = totalTokens + estimateTokens(results[idx].response)
  /\ pc' = "done_concurrent"
  /\ UNCHANGED <<host, router, pulls, config, round, idx, chunkIdx, events, transcript, calls,
                 results, settleOrder, abandoned>>

\* totalTokens += estimateTokens(response); transcript.push({...})
RecordConcurrent ==
  /\ pc = "replay"
  /\ Resumed
  /\ chunkIdx > Len(results[idx].chunks)
  /\ totalTokens' = totalTokens + estimateTokens(results[idx].response)
  /\ transcript' =
       Append(transcript, TranscriptEntry(EmitAgent(idx), round, results[idx].response))
  /\ pc' = "done_concurrent"
  /\ UNCHANGED <<host, router, pulls, config, round, idx, chunkIdx, events, calls, results,
                 settleOrder, abandoned>>

\* variant: the entry is recorded but agent_done is never yielded
YieldAgentDoneConcurrent_silent ==
  /\ pc = "done_concurrent"
  /\ Resumed
  /\ AfterTurn("emit")
  /\ UNCHANGED <<host, router, pulls, config, round, chunkIdx, events, transcript, totalTokens,
                 calls, results, settleOrder, abandoned>>

YieldAgentDoneConcurrent ==
  /\ pc = "done_concurrent"
  /\ Resumed
  /\ Yield(AgentDone(EmitAgent(idx), round, results[idx].response))
  /\ AfterTurn("emit")
  /\ UNCHANGED <<host, router, pulls, config, round, chunkIdx, transcript, totalTokens, calls,
                 results, settleOrder, abandoned>>

\* variant: a rejected result is passed over without an event
YieldAgentErrorConcurrent_silent ==
  /\ pc = "emit"
  /\ Resumed
  /\ results[idx].status # "fulfilled"
  /\ AfterTurn("emit")
  /\ UNCHANGED <<host, router, pulls, config, round, chunkIdx, events, transcript,
                 totalTokens, calls, results, settleOrder, abandoned>>

YieldAgentErrorConcurrent ==
  /\ pc = "emit"
  /\ Resumed
  /\ results[idx].status # "fulfilled"
  /\ Yield(AgentError(EmitAgent(idx), results[idx].reason))
  /\ AfterTurn("emit")
  /\ UNCHANGED <<host, router, pulls, config, round, chunkIdx, transcript, totalTokens, calls,
                 results, settleOrder, abandoned>>

\* the messages the turn of panelists[idx] is given
TurnMessages == buildPanelistMessages(panelists[idx], transcript, round)

\* variant: the provider call is started before agent_start is yielded
YieldAgentStartSequential_prefetch ==
  /\ pc = "turn"
  /\ Resumed
  /\ Yield(AgentStart(panelists[idx], round))
  /\ calls' = Append(calls, Invocation(panelists[idx], round, TurnMessages))
  /\ router' = getProvider(router, panelists[idx].model).router
  /\ pc' = "await"
  /\ UNCHANGED <<host, pulls, config, round, idx, chunkIdx, transcript, totalTokens,
                 results, settleOrder, abandoned>>

\* ---- rounds >= 2: for (const agent of panelists) { ... }
YieldAgentStartSequential ==
  /\ pc = "turn"
  /\ Resumed
  /\ Yield(AgentStart(panelists[idx], round))
  /\ pc' = "invoke"
  /\ UNCHANGED <<host, router, pulls, config, round, idx, chunkIdx, transcript, totalTokens, calls,
                 results, settleOrder, abandoned>>

\* variant: the turn is started for every remaining panelist without awaiting
Invoke_unawaited ==
  /\ pc = "invoke"
  /\ Resumed
  /\ calls' = calls \o
       [i \in 1..(N - idx + 1) |->
          Invocation(panelists[idx + i - 1], round,
                     buildPanelistMessages(panelists[idx + i - 1], transcript, round))]
  /\ router' = router
  /\ pc' = "await"
  /\ UNCHANGED <<host, pulls, config, round, idx, chunkIdx, events, transcript, totalTokens,
                 results, settleOrder, abandoned>>

\* getProvider; work(); withTimeout(work(), timeoutMs, label) inside the try
Invoke ==
  /\ pc = "invoke"
  /\ Resumed
  /\ calls' = Append(calls, Invocation(panelists[idx], round, TurnMessages))
  /\ router' = getProvider(router, panelists[idx].model).router
  /\ pc' = "await"
  /\ UNCHANGED <<host, pulls, config, round, idx, chunkIdx, events, transcript, totalTokens,
                 results, settleOrder, abandoned>>

Current == Len(calls)

\* variant: the entry is put in front of the transcript (unshift)
RecordSequential_unshift ==
  /\ pc = "await"
  /\ Resumed
  /\ calls[Current].promise = "fulfilled"
  /\ totalTokens' = totalTokens + estimateTokens(Flatten(calls[Current].parts))
  /\ transcript' =
       <<TranscriptEntry(panelists[idx], round, Flatten(calls[Current].parts))>>
         \o transcript
  /\ pc' = "done_sequential"
  /\ UNCHANGED <<host, router, pulls, config, round, idx, chunkIdx, events, calls, results,
                 settleOrder, abandoned>>

\* fullResponse = await withTimeout(...); totalTokens += ...; transcript.push
RecordSequential ==
  /\ pc = "await"
  /\ Resumed
  /\ calls[Current].promise = "fulfilled"
  /\ totalTokens' = totalTokens + estimateTokens(Flatten(calls[Current].parts))
  /\ transcript' =
       Append(transcript,
              TranscriptEntry(panelists[idx], round, Flatten(calls[Current].parts)))
  /\ pc' = "done_sequential"
  /\ UNCHANGED <<host, router, pulls, config, round, idx, chunkIdx, events, calls, results,
                 settleOrder, abandoned>>

YieldAgentDoneSequential ==
  /\ pc = "done_sequential"
  /\ Resumed
  /\ Yield(AgentDone(panelists[idx], round, Flatten(calls[Current].parts)))
  /\ AfterTurn("turn")
  /\ UNCHANGED <<host, router, pulls, config, round, chunkIdx, transcript, totalTokens, calls,
                 results, settleOrder, abandoned>>

\* variant: a failed turn leaves the panelist loop (break)
YieldAgentErrorSequential_break ==
  /\ pc = "await"
  /\ Resumed
  /\ calls[Current].promise = "rejected"
  /\ Yield(AgentError(panelists[idx], calls[Current].reason))
  /\ idx' = idx + 1
  /\ pc' = "round_end"
  /\ UNCHANGED <<host, router, pulls, config, round, chunkIdx, transcript, totalTokens, calls,
                 results, settleOrder, abandoned>>

\* variant: the catch block runs the turn once more
YieldAgentErrorSequential_retry ==
  /\ pc = "await"
  /\ Resumed
  /\ calls[Current].promise = "rejected"
  /\ Yield(AgentError(panelists[idx], calls[Current].reason))
  /\ pc' = "invoke"
  /\ UNCHANGED <<host, router, pulls, config, round, idx, chunkIdx, transcript, totalTokens, calls,
                 results, settleOrder, abandoned>>

\* variant: the error event of a failed turn carries no agentId
YieldAgentErrorSequential_unscoped ==
  /\ pc = "await"
  /\ Resumed
  /\ calls[Current].promise = "rejected"
  /\ Yield(FatalError(<<"Agent", panelists[idx].name, "failed">> \o calls[Current].reason))
  /\ AfterTurn("turn")
  /\ UNCHANGED <<host, router, pulls, config, round, chunkIdx, transcript, totalTokens, calls,
                 results, settleOrder, abandoned>>

\* catch (err) { yield error }
YieldAgentErrorSequential ==
  /\ pc = "await"
  /\ Resumed
  /\ calls[Current].promise = "rejected"
  /\ Yield(AgentError(panelists[idx], calls[Current].reason))
  /\ AfterTurn("turn")
  /\ UNCHANGED <<host, router, pulls, config, round, chunkIdx, transcript, totalTokens, calls,
                 results, settleOrder, abandoned>>

\* variant: the loop counts config.maxRounds down
YieldRoundEnd_countdown ==
  /\ pc = "round_end"
  /\ Resumed
  /\ Yield(RoundEnd(round))
  /\ round' = round + 1
  /\ config' = [config EXCEPT !.maxRounds = @ - 1]
  /\ results' = <<>>
  /\ settleOrder' = <<>>
  /\ pc' = "loop"
  /\ UNCHANGED <<host, router, pulls, idx, chunkIdx, transcript, totalTokens, calls,
                 abandoned>>

\* yield round_end; round++   (results leaves scope with the concurrent block)
YieldRoundEnd ==
  /\ pc = "round_end"
  /\ Resumed
  /\ Yield(RoundEnd(round))
  /\ round' = round + 1
  /\ results' = <<>>
  /\ settleOrder' = <<>>
  /\ pc' = "loop"
  /\ UNCHANGED <<host, router, pulls, config, idx, chunkIdx, transcript, totalTokens, calls, abandoned>>

\* ---- synthesis
YieldSynthesisStart ==
  /\ pc = "loop"
  /\ Resumed
  /\ round > config.maxRounds
  /\ Yield(SynthesisStart(synthesizer))
  /\ pc' = "synth_invoke"
  /\ UNCHANGED <<host, router, pulls, config, round, idx, chunkIdx, transcript, totalTokens, calls,
                 results, settleOrder, abandoned>>

SynthMessages == buildSynthesizerMessages(synthesizer, transcript)

InvokeSynthesizer ==
  /\ pc = "synth_invoke"
  /\ Resumed
  /\ calls' = Append(calls, Invocation(synthesizer, 0, SynthMessages))
  /\ router' = getProvider(router, synthesizer.model).router
  /\ pc' = "synth_await"
  /\ UNCHANGED <<host, pulls, config, round, idx, chunkIdx, events, transcript, totalTokens,
                 results, settleOrder, abandoned>>

YieldSynthesisDone ==
  /\ pc = "synth_await"
  /\ Resumed
  /\ calls[Current].promise = "fulfilled"
  /\ totalTokens' = totalTokens + estimateTokens(Flatten(calls[Current].parts))
  /\ Yield(SynthesisDone(Flatten(calls[Current].parts)))
  /\ pc' = "stats"
  /\ UNCHANGED <<host, router, pulls, config, round, idx, chunkIdx, transcript, calls, results,
                 settleOrder, abandoned>>

\* variant: only the agents that contributed are counted
DiscussionStats_contributors ==
  [totalRounds |-> config.maxRounds,
   totalAgents |-> Cardinality({transcript[i].agentId : i \in DOMAIN transcript}) + 1,
   totalTokensEstimate |-> totalTokens]

\* const stats: DiscussionStats = { totalRounds, totalAgents, totalTokensEstimate }
DiscussionStats ==
  [totalRounds |-> config.maxRounds, totalAgents |-> N + 1,
   totalTokensEstimate |-> totalTokens]

YieldRoundtableDone ==
  /\ pc = "stats"
  /\ Resumed
  /\ Yield(RoundtableDone(Flatten(calls[Current].parts), DiscussionStats))
  /\ pc' = "done"
  /\ UNCHANGED <<host, router, pulls, config, round, idx, chunkIdx, transcript, totalTokens, calls,
                 results, settleOrder, abandoned>>

\* variant: the catch block falls through to the completion event
YieldSynthesisError_fallthrough ==
  /\ pc = "synth_await"
  /\ Resumed
  /\ calls[Current].promise = "rejected"
  /\ Yield(FatalError(<<"Synthesizer failed">> \o calls[Current].reason))
  /\ pc' = "stats"
  /\ UNCHANGED <<host, router, pulls, config, round, idx, chunkIdx, transcript, totalTokens, calls,
                 results, settleOrder, abandoned>>

\* catch (err) { yield { type: 'error', error: `Synthesizer failed: ${err}` } }
YieldSynthesisError ==
  /\ pc = "synth_await"
  /\ Resumed
  /\ calls[Current].promise = "rejected"
  /\ Yield(FatalError(<<"Synthesizer failed">> \o calls[Current].reason))
  /\ pc' = "done"
  /\ UNCHANGED <<host, router, pulls, config, round, idx, chunkIdx, transcript, totalTokens, calls,
                 results, settleOrder, abandoned>>

Provider ==
  \E c \in DOMAIN calls :
    \/ \E chunk \in Chunks : StreamChunk(c, chunk)
    \/ StreamEnd(c)
    \/ StreamFail(c)
    \/ Timeout(c)

\* the steps of the generator
Generator ==
  \/ RejectNoPanelists
  \/ RejectNoSynthesizer
  \/ YieldRoundtableStart
  \/ YieldRoundStart
  \/ FanOut
  \/ Join
  \/ YieldAgentStartConcurrent
  \/ YieldAgentChunk
  \/ RecordConcurrent
  \/ YieldAgentDoneConcurrent
  \/ YieldAgentErrorConcurrent
  \/ YieldAgentStartSequential
  \/ Invoke
  \/ RecordSequential
  \/ YieldAgentDoneSequential
  \/ YieldAgentErrorSequential
  \/ YieldRoundEnd
  \/ YieldSynthesisStart
  \/ InvokeSynthesizer
  \/ YieldSynthesisDone
  \/ YieldRoundtableDone
  \/ YieldSynthesisError

\* the generator and what it awaits
Run ==
  \/ Generator
  \/ Provider
  \/ AbandonedSettles

Next ==
  \/ Pull
  \/ Run

Spec == Init /\ [][Next]_vars

\* ---- runs in which getProvider(agent.model) throws (API key not set).  Any
\* resolution may throw; a run in which a model fails throughout is among them.
ResolveReason == <<"environment variable not set">>

\* streamAgentWithTimeout throws before a stream or a timer exists: the
\* promise of the async function is rejected
Unresolved(agent, r, messages) ==
  [Invocation(agent, r, messages) EXCEPT !.promise = "rejected",
                                         !.reason = ResolveReason,
                                         !.provider = 0]

\* round 1: the async map callback of each panelist in F is rejected
FanOutUnresolved ==
  /\ pc = "fanout"
  /\ Resumed
  /\ \E F \in (SUBSET (1..N)) \ {{}} :
       /\ calls' = calls \o
            [i \in 1..N |->
               IF i \in F
               THEN Unresolved(panelists[i], round,
                               buildPanelistMessages(panelists[i], transcript, round))
               ELSE [Invocation(panelists[i], round,
                                buildPanelistMessages(panelists[i], transcript, round))
                       EXCEPT !.provider =
                         getProvider(RouterAt(i - 1, F), panelists[i].model).provider]]
       /\ router' = RouterAt(N, F)
       /\ settleOrder' =
            SelectSeq([i \in 1..N |-> Len(calls) + i],
                      LAMBDA c : (c - Len(calls)) \in F)
  /\ pc' = "join"
  /\ UNCHANGED <<host, pulls, config, round, idx, chunkIdx, events, transcript, totalTokens,
                 results, abandoned>>

\* variant: getProvider is called before the try block is entered
InvokeUnresolved_uncaught ==
  /\ pc = "invoke"
  /\ Resumed
  /\ calls' = Append(calls, Unresolved(panelists[idx], round, TurnMessages))
  /\ pc' = "thrown"
  /\ UNCHANGED <<host, router, pulls, config, round, idx, chunkIdx, events, transcript, totalTokens,
                 results, settleOrder, abandoned>>

\* rounds >= 2: getProvider throws inside the try block; the catch follows
InvokeUnresolved ==
  /\ pc = "invoke"
  /\ Resumed
  /\ calls' = Append(calls, Unresolved(panelists[idx], round, TurnMessages))
  /\ pc' = "await"
  /\ UNCHANGED <<host, router, pulls, config, round, idx, chunkIdx, events, transcript, totalTokens,
                 results, settleOrder, abandoned>>

\* synthesis: getProvider throws inside the try block; the catch follows
InvokeSynthesizerUnresolved ==
  /\ pc = "synth_invoke"
  /\ Resumed
  /\ calls' = Append(calls, Unresolved(synthesizer, 0, SynthMessages))
  /\ pc' = "synth_await"
  /\ UNCHANGED <<host, router, pulls, config, round, idx, chunkIdx, events, transcript, totalTokens,
                 results, settleOrder, abandoned>>

NextResolve ==
  \/ Next
  \/ FanOutUnresolved
  \/ InvokeUnresolved
  \/ InvokeSynthesizerUnresolved

\* ---- runs with a configured agentTimeout (0.4 s, 2.5 s) or the default
AgentTimeouts == {<<>>, <<4>>, <<25>>}

TimeoutRoleSeqs ==
  {<<"panelist", "panelist", "synthesizer">>, <<"panelist", "synthesizer">>,
   <<"synthesizer">>, <<"panelist">>}

TimeoutConfig ==
  {[agents |-> [i \in 1..Len(rs) |-> AgentDefinition(i, rs[i])],
    maxRounds |-> 2, agentTimeout |-> t] : rs \in TimeoutRoleSeqs, t \in AgentTimeouts}

InitTimeout ==
  /\ config \in TimeoutConfig
  /\ pc = "start"
  /\ round = 0
  /\ idx = 0
  /\ chunkIdx = 0
  /\ events = <<>>
  /\ transcript = <<>>
  /\ totalTokens = 0
  /\ calls = <<>>
  /\ results = <<>>
  /\ settleOrder = <<>>
  /\ abandoned = 0
  /\ pulls = 0
  /\ router = [providerCache |-> [m \in {} |-> 0], created |-> 0]
  /\ Standalone

\* the event loop runs whatever is ready and every armed timer fires
SpecTimeout == InitTimeout /\ [][Next]_vars /\ WF_vars(Next)

\* setTimeout(..., timeoutMs): the timer of a pending invocation fires
TimerFires == \E c \in DOMAIN calls : Timeout(c)

\* the consumer keeps asking for events, the generator runs whenever it can
\* and every armed timer fires; a provider stream need never deliver or end
SpecLive ==
  /\ InitTimeout
  /\ [][Next]_vars
  /\ WF_vars(Pull)
  /\ WF_vars(Generator)
  /\ WF_vars(TimerFires)

\* ---- runs of two panelists and a synthesizer whose model ids vary
ContextModels ==
  {<<"claude-m", "claudia-m", "gpt-m">>, <<"gpt-m", "claude-m", "claudia-m">>}

ContextConfig ==
  {[agents |-> [i \in 1..3 |->
                  [AgentDefinition(i, IF i = 3 THEN "synthesizer" ELSE "panelist")
                     EXCEPT !.model = ms[i]]],
    maxRounds |-> 2, agentTimeout |-> <<>>] : ms \in ContextModels}
  \cup {cfg \in TimeoutConfig : Len(cfg.agents) = 1 /\ cfg.agentTimeout = <<>>}

InitContext ==
  /\ config \in ContextConfig
  /\ pc = "start"
  /\ round = 0
  /\ idx = 0
  /\ chunkIdx = 0
  /\ events = <<>>
  /\ transcript = <<>>
  /\ totalTokens = 0
  /\ calls = <<>>
  /\ results = <<>>
  /\ settleOrder = <<>>
  /\ abandoned = 0
  /\ pulls = 0
  /\ router = [providerCache |-> [m \in {} |-> 0], created |-> 0]
  /\ Standalone

SpecContext == InitContext /\ [][Next]_vars

InitResolve == InitTimeout /\ config.agentTimeout = <<>>

SpecResolve == InitResolve /\ [][NextResolve]_vars

\* ---- runs in which the streams given up on keep delivering
\* variant: the turns share one buffer, so the fragment lands in the buffer
\* of the newest invocation
AbandonedChunk_shared(c, chunk) ==
  /\ abandoned > 0
  /\ calls[c].promise = "rejected"
  /\ calls[c].reason = TimeoutReason(AgentById(calls[c].agentId))
  /\ \E st \in Streams : IsPrefix(Append(calls[c].parts, chunk), st)
  /\ \E st \in Streams : IsPrefix(Append(calls[Len(calls)].parts, chunk), st)
  /\ calls' = [calls EXCEPT ![Len(calls)].parts = Append(@, chunk)]
  /\ UNCHANGED <<host, router, pulls, config, pc, round, idx, chunkIdx, events,
                 transcript, totalTokens, results, settleOrder, abandoned>>

\* the stream of an invocation that timed out delivers a fragment: work() is
\* still running, so parts.push(chunk); onChunk(chunk) (fullResponse += chunk,
\* synthesisText += chunk) write to the buffer of that invocation
AbandonedChunk(c, chunk) ==
  /\ abandoned > 0
  /\ calls[c].promise = "rejected"
  /\ calls[c].reason = TimeoutReason(AgentById(calls[c].agentId))
  /\ \E st \in Streams : IsPrefix(Append(calls[c].parts, chunk), st)
  /\ calls' = [calls EXCEPT ![c].parts = Append(@, chunk)]
  /\ UNCHANGED <<host, router, pulls, config, pc, round, idx, chunkIdx, events,
                 transcript, totalTokens, results, settleOrder, abandoned>>

LateFragment == \E c \in DOMAIN calls : \E chunk \in Chunks : AbandonedChunk(c, chunk)

NextAbandon ==
  \/ Next
  \/ LateFragment

SpecAbandon == InitResolve /\ [][NextAbandon]_vars

\* ---- runs beside which other discussions of the process resolve providers
Models == {ModelOf(i) : i \in 1..2}

\* getProvider(model) called by another discussion sharing the module, the
\* model cached already or not
ResolveElsewhere ==
  /\ \E model \in Models : router' = getProvider(router, model).router
  /\ UNCHANGED <<host, pulls, config, pc, round, idx, chunkIdx, events, transcript,
                 totalTokens, calls, results, settleOrder, abandoned>>

NextCache ==
  \/ NextResolve
  \/ ResolveElsewhere

SpecCache == InitResolve /\ [][NextCache]_vars

\* ================================================= the callers of the engine
\* ---- history/store.ts
\* the messages row an agent_done event is stored as
MessageRow(event) ==
  [agentId |-> event.agentId, agentName |-> event.agentName, round |-> event.round,
   role |-> "panelist", content |-> event.text, model |-> event.model]

\* variant: agent-scoped error events are stored as messages rows too
handleEvent_errors(rec, event) ==
  LET called == [rec EXCEPT !.handled = Append(@, event)]
  IN CASE event.type = "agent_done" \/ (event.type = "error" /\ event.agentId # "") ->
            [called EXCEPT !.messages = Append(@, MessageRow(event))]
       [] event.type = "synthesis_done" ->
            [called EXCEPT !.synthesis = <<event.text>>]
       [] event.type = "roundtable_done" ->
            [called EXCEPT !.totals = <<event.stats.totalTokensEstimate>>]
       [] OTHER -> called

\* DiscussionRecorder.handleEvent(event): INSERT INTO messages on agent_done,
\* UPDATE discussions SET synthesis on synthesis_done, SET duration_ms,
\* total_tokens on roundtable_done (one statement; the wall-clock duration is
\* not modelled, totals holds the token total), nothing otherwise
handleEvent(rec, event) ==
  LET called == [rec EXCEPT !.handled = Append(@, event)]
  IN CASE event.type = "agent_done" ->
            [called EXCEPT !.messages = Append(@, MessageRow(event))]
       [] event.type = "synthesis_done" ->
            [called EXCEPT !.synthesis = <<event.text>>]
       [] event.type = "roundtable_done" ->
            [called EXCEPT !.totals = <<event.stats.totalTokensEstimate>>]
       [] OTHER -> called

\* getDiscussion(id): the discussions row and its messages rows ORDER BY id
getDiscussion(rec) ==
  [discussion |-> [synthesis |-> rec.synthesis, totals |-> rec.totals],
   messages |-> rec.messages]

\* ---- output/terminal.ts
Written(k, kind, text) == [at |-> k, kind |-> kind, text |-> text]

\* one pass of the loop body of renderToTerminal, for the k-th event
render(t, event, k) ==
  LET put(ws) == [t EXCEPT !.rendered = k, !.out = @ \o ws]
  IN CASE event.type = "roundtable_start" ->
            put(<<Written(k, "line", <<event.topic>>)>>)
       [] event.type = "round_start" ->
            put(<<Written(k, "line", <<event.mode>>)>>)
       [] event.type = "agent_start" ->
            [put(<<Written(k, "header", <<event.agentName>>)>>)
               EXCEPT !.currentAgentId = event.agentId]
       [] event.type = "agent_chunk" ->
            IF event.agentId = t.currentAgentId
            THEN put(<<Written(k, "text", event.text)>>)
            ELSE put(<<>>)
       [] event.type = "agent_done" ->
            [(IF event.agentId = t.currentAgentId
              THEN put(<<Written(k, "newline", <<>>)>>)
              ELSE put(<<Written(k, "header", <<event.agentName>>),
                         Written(k, "text", event.text),
                         Written(k, "newline", <<>>)>>))
               EXCEPT !.currentAgentId = ""]
       [] event.type = "round_end" -> put(<<>>)
       [] event.type = "synthesis_start" ->
            put(<<Written(k, "line", <<"Synthesis">>),
                  Written(k, "header", <<event.agentName>>)>>)
       [] event.type = "synthesis_chunk" ->
            put(<<Written(k, "text", event.text)>>)
       [] event.type = "synthesis_done" ->
            put(<<Written(k, "newline", <<>>)>>)
       [] event.type = "roundtable_done" ->
            put(<<Written(k, "line", <<"Done">>)>>)
       [] event.type = "error" ->
            put(<<Written(k, "error", event.error)>>)
       [] OTHER -> put(<<>>)

\* ---- cli.ts, case 'discuss'
\* const recorder = new DiscussionRecorder(...); const events = runRoundtable(
\* topic, config); await renderToTerminal(withRecording(events, recorder)):
\* the renderer asks withRecording, which asks runRoundtable, for an event
Discuss ==
  /\ caller.entry = "cli"
  /\ caller.stage = "main"
  /\ recorder' = NewRecorder
  /\ terminal' = NewTerminal
  /\ caller' = [caller EXCEPT !.stage = "running"]
  /\ pulls' = pulls + 1
  /\ UNCHANGED <<retry, router, config, pc, round, idx, chunkIdx, events, transcript,
                 totalTokens, calls, results, settleOrder, abandoned>>

\* variant: fragments are passed on without being recorded
WithRecording_unrecorded ==
  /\ caller.entry = "cli"
  /\ caller.stage = "running"
  /\ pulls = Len(events)
  /\ caller.taken < Len(events)
  /\ recorder' = IF events[caller.taken + 1].type = "agent_chunk" THEN recorder
                 ELSE handleEvent(recorder, events[caller.taken + 1])
  /\ caller' = [caller EXCEPT !.taken = @ + 1]
  /\ UNCHANGED <<terminal, retry, router, pulls, config, pc, round, idx, chunkIdx,
                 events, transcript, totalTokens, calls, results, settleOrder,
                 abandoned>>

\* withRecording receives the event the engine yielded:
\* recorder.handleEvent(event); yield event
WithRecording ==
  /\ caller.entry = "cli"
  /\ caller.stage = "running"
  /\ pulls = Len(events)
  /\ caller.taken < Len(events)
  /\ recorder' = handleEvent(recorder, events[caller.taken + 1])
  /\ caller' = [caller EXCEPT !.taken = @ + 1]
  /\ UNCHANGED <<terminal, retry, router, pulls, config, pc, round, idx, chunkIdx,
                 events, transcript, totalTokens, calls, results, settleOrder,
                 abandoned>>

\* renderToTerminal receives the event withRecording yielded, runs the switch
\* and asks for the next event; withRecording passes the request on
RenderToTerminal ==
  /\ caller.entry = "cli"
  /\ caller.stage = "running"
  /\ terminal.rendered < caller.taken
  /\ terminal' = render(terminal, events[terminal.rendered + 1], terminal.rendered + 1)
  /\ pulls' = IF pc = "done" THEN pulls ELSE pulls + 1
  /\ UNCHANGED <<recorder, caller, retry, router, config, pc, round, idx, chunkIdx,
                 events, transcript, totalTokens, calls, results, settleOrder,
                 abandoned>>

\* the generator has returned: both loops end, "Discussion saved" is logged
DiscussReturns ==
  /\ caller.entry = "cli"
  /\ caller.stage = "running"
  /\ pc = "done"
  /\ terminal.rendered = Len(events)
  /\ caller' = [caller EXCEPT !.stage = "returned"]
  /\ UNCHANGED <<recorder, terminal, retry, router, pulls, config, pc, round, idx,
                 chunkIdx, events, transcript, totalTokens, calls, results,
                 settleOrder, abandoned>>

\* ---- mcp.ts, tool agora_discuss
\* const recorder = new DiscussionRecorder(topic, preset); transcript = [];
\* finalAnswer = ''; for await (const event of runRoundtable(topic, config))
AgoraDiscuss ==
  /\ caller.entry = "mcp"
  /\ caller.stage = "main"
  /\ recorder' = NewRecorder
  /\ caller' = [caller EXCEPT !.stage = "running", !.transcript = <<>>,
                              !.finalAnswer = <<>>]
  /\ pulls' = pulls + 1
  /\ UNCHANGED <<terminal, retry, router, config, pc, round, idx, chunkIdx, events,
                 transcript, totalTokens, calls, results, settleOrder, abandoned>>

\* `**${agentName}** (${model}, Round ${round}):\n${fullResponse}`
TranscriptItem(event) ==
  <<event.agentName, event.model, event.round, event.text>>

\* the loop body: recorder.handleEvent(event); transcript.push on agent_done;
\* finalAnswer = event.answer on synthesis_done; then the next request
AgoraDiscussEvent ==
  /\ caller.entry = "mcp"
  /\ caller.stage = "running"
  /\ pulls = Len(events)
  /\ caller.taken < Len(events)
  /\ LET event == events[caller.taken + 1]
     IN /\ recorder' = handleEvent(recorder, event)
        /\ caller' =
             [caller EXCEPT
                !.taken = @ + 1,
                !.transcript = IF event.type = "agent_done"
                               THEN Append(@, TranscriptItem(event)) ELSE @,
                !.finalAnswer = IF event.type = "synthesis_done"
                                THEN event.text ELSE @]
  /\ pulls' = IF pc = "done" THEN pulls ELSE pulls + 1
  /\ UNCHANGED <<terminal, retry, router, config, pc, round, idx, chunkIdx, events,
                 transcript, totalTokens, calls, results, settleOrder, abandoned>>

\* return { content: [{ type: 'text', text: `...### Transcript...### Synthesis
\* ...${finalAnswer}...` }] }: a result without isError
ToolResult(items, answer) ==
  [isError |-> FALSE, transcript |-> items, synthesis |-> answer]

\* the generator has returned: the loop ends and the tool returns its result
AgoraDiscussReturns ==
  /\ caller.entry = "mcp"
  /\ caller.stage = "running"
  /\ pc = "done"
  /\ caller.taken = Len(events)
  /\ caller' = [caller EXCEPT !.stage = "returned",
                              !.result = <<ToolResult(caller.transcript,
                                                      caller.finalAnswer)>>]
  /\ UNCHANGED <<recorder, terminal, retry, router, pulls, config, pc, round, idx,
                 chunkIdx, events, transcript, totalTokens, calls, results,
                 settleOrder, abandoned>>

NextHost ==
  \/ Discuss
  \/ WithRecording
  \/ RenderToTerminal
  \/ DiscussReturns
  \/ AgoraDiscuss
  \/ AgoraDiscussEvent
  \/ AgoraDiscussReturns
  \/ Run

Entries == {"cli", "mcp"}

InitHost ==
  /\ config \in {cfg \in TimeoutConfig : cfg.agentTimeout = <<>>}
  /\ pc = "start"
  /\ round = 0
  /\ idx = 0
  /\ chunkIdx = 0
  /\ events = <<>>
  /\ transcript = <<>>
  /\ totalTokens = 0
  /\ calls = <<>>
  /\ results = <<>>
  /\ settleOrder = <<>>
  /\ abandoned = 0
  /\ pulls = 0
  /\ router = [providerCache |-> [m \in {} |-> 0], created |-> 0]
  /\ recorder = NewRecorder
  /\ terminal = NewTerminal
  /\ caller \in {[NoCaller EXCEPT !.entry = e, !.stage = "main"] : e \in Entries}
  /\ retry = NoRetry

SpecHost == InitHost /\ [][NextHost]_vars

\* ================================================ how a discussion is set up
\* In this part a JavaScript number is <<n, d>>, the value n/d (d = 1 for an
\* integer), and NaN is <<>>; a string is its sequence of characters.
NaN == <<>>
Num(n) == <<n, 1>>
isInteger(v) == v # NaN /\ v[2] = 1

Digits == <<"0", "1", "2", "3", "4", "5", "6", "7", "8", "9">>
IsDigit(c) == \E i \in 1..10 : Digits[i] = c
DigitValue(c) == (CHOOSE i \in 1..10 : Digits[i] = c) - 1

RECURSIVE TrimStart(_)
TrimStart(str) ==
  IF str # <<>> /\ Head(str) = " " THEN TrimStart(Tail(str)) ELSE str

RECURSIVE LeadingDigits(_)
LeadingDigits(str) ==
  IF str = <<>> \/ ~IsDigit(Head(str)) THEN <<>>
  ELSE <<Head(str)>> \o LeadingDigits(Tail(str))

RECURSIVE Decimal(_)
Decimal(ds) ==
  IF ds = <<>> THEN 0
  ELSE 10 * Decimal(SubSeq(ds, 1, Len(ds) - 1)) + DigitValue(ds[Len(ds)])

\* parseInt(str, 10): leading white space, an optional sign, then the longest
\* run of digits; NaN when there is no digit
parseInt(str) ==
  LET s0 == TrimStart(str)
      signed == s0 # <<>> /\ Head(s0) \in {"-", "+"}
      ds == LeadingDigits(IF signed THEN Tail(s0) ELSE s0)
  IN IF ds = <<>> THEN NaN
     ELSE IF signed /\ Head(s0) = "-" THEN Num(0 - Decimal(ds)) ELSE Num(Decimal(ds))

\* z.number().int().positive().max(10)
validMaxRounds(v) == isInteger(v) /\ v[1] > 0 /\ v[1] <= 10

\* z.array(AgentDefinitionSchema).min(2).refine(some synthesizer)
validAgents(agents) ==
  Len(agents) >= 2 /\ \E i \in 1..Len(agents) : agents[i].role = "synthesizer"

\* agents/presets.ts
DEFAULT_PRESET ==
  [agents |-> <<AgentDefinition(1, "panelist"), AgentDefinition(2, "panelist"),
                AgentDefinition(3, "synthesizer")>>,
   maxRounds |-> Num(2), agentTimeout |-> <<>>]

\* what a preset file may hold: agents of any roles, and a maxRounds of any
\* value or none (<<"absent">>)
RawMaxRounds == {<<"absent">>, Num(2), Num(3), Num(0), Num(11), <<5, 2>>}

PresetFiles ==
  {[agents |-> [i \in 1..Len(rs) |-> AgentDefinition(i, rs[i])], maxRounds |-> m] :
     rs \in TimeoutRoleSeqs, m \in RawMaxRounds}

\* RoundtableConfigSchema.parse(parsed): throws unless the file is valid;
\* maxRounds defaults to 2
schemaAccepts(file) ==
  /\ validAgents(file.agents)
  /\ file.maxRounds = <<"absent">> \/ validMaxRounds(file.maxRounds)

schemaParse(file) ==
  [agents |-> file.agents,
   maxRounds |-> IF file.maxRounds = <<"absent">> THEN Num(2) ELSE file.maxRounds,
   agentTimeout |-> <<>>]

\* loadPreset(name) inside try/catch with the built-in default as fallback
\* (resolveConfig in cli.ts, lines 32-37 of mcp.ts): preset is <<>> when no
\* file of that name exists
loadPresetOrDefault(preset) ==
  IF preset # <<>> /\ schemaAccepts(preset[1]) THEN schemaParse(preset[1])
  ELSE DEFAULT_PRESET

\* interpolateConfig(config, topic): a copy with {{topic}} replaced in the
\* system prompts, which are not part of this model
interpolateConfig(cfg, topic) ==
  [agents |-> [i \in 1..Len(cfg.agents) |-> cfg.agents[i]],
   maxRounds |-> cfg.maxRounds, agentTimeout |-> cfg.agentTimeout]

\* let config: RoundtableConfig; (not assigned yet)
NoConfig == <<>>

\* const config = resolveConfig(presetName, positional)
ResolveConfig ==
  /\ caller.entry = "cli"
  /\ caller.stage = "command"
  /\ config' = interpolateConfig(loadPresetOrDefault(caller.preset), Topic)
  /\ caller' = [caller EXCEPT !.stage = "resolved"]
  /\ UNCHANGED <<recorder, terminal, retry, router, pulls, pc, round, idx, chunkIdx,
                 events, transcript, totalTokens, calls, results, settleOrder,
                 abandoned>>

\* if (flags['rounds']) { config.maxRounds = parseInt(flags['rounds'], 10); }
\* every flag value is a non-empty string
ApplyRounds ==
  /\ caller.entry = "cli"
  /\ caller.stage = "resolved"
  /\ config' = IF caller.rounds # <<>>
               THEN [config EXCEPT !.maxRounds = parseInt(caller.rounds[1])]
               ELSE config
  /\ caller' = [caller EXCEPT !.stage = "main"]
  /\ UNCHANGED <<recorder, terminal, retry, router, pulls, pc, round, idx, chunkIdx,
                 events, transcript, totalTokens, calls, results, settleOrder,
                 abandoned>>

\* config = preset ? loadPreset(preset) : loadPreset('default'), caught;
\* config = interpolateConfig(config, topic)
LoadToolConfig ==
  /\ caller.entry = "mcp"
  /\ caller.stage = "command"
  /\ config' = interpolateConfig(loadPresetOrDefault(caller.preset), Topic)
  /\ caller' = [caller EXCEPT !.stage = "resolved"]
  /\ UNCHANGED <<recorder, terminal, retry, router, pulls, pc, round, idx, chunkIdx,
                 events, transcript, totalTokens, calls, results, settleOrder,
                 abandoned>>

\* if (maxRounds) config.maxRounds = maxRounds: undefined and 0 are falsy
ApplyMaxRounds ==
  /\ caller.entry = "mcp"
  /\ caller.stage = "resolved"
  /\ config' = IF caller.rounds # <<>> /\ caller.rounds[1] # Num(0)
               THEN [config EXCEPT !.maxRounds = caller.rounds[1]]
               ELSE config
  /\ caller' = [caller EXCEPT !.stage = "main"]
  /\ UNCHANGED <<recorder, terminal, retry, router, pulls, pc, round, idx, chunkIdx,
                 events, transcript, totalTokens, calls, results, settleOrder,
                 abandoned>>

\* the values of --rounds tried
RoundsFlags ==
  {<<"3">>, <<"0">>, <<"1", "0">>, <<"1", "1">>, <<"-", "1">>, <<"2", ".", "5">>,
   <<"3", "x">>, <<" ", "4">>, <<"t", "r", "u", "e">>}

\* the values of the tool argument maxRounds: z.number().optional()
MaxRoundsArgs == {Num(3), Num(0), Num(10), Num(11), Num(0 - 1), <<5, 2>>}

Launches ==
  {[NoCaller EXCEPT !.entry = "cli", !.stage = "command", !.preset = f, !.rounds = r] :
     f \in {<<>>} \cup {<<file>> : file \in PresetFiles},
     r \in {<<>>} \cup {<<str>> : str \in RoundsFlags}}
  \cup
  {[NoCaller EXCEPT !.entry = "mcp", !.stage = "command", !.preset = f, !.rounds = r] :
     f \in {<<>>} \cup {<<file>> : file \in PresetFiles},
     r \in {<<>>} \cup {<<v>> : v \in MaxRoundsArgs}}

InitLaunch ==
  /\ config = NoConfig
  /\ pc = "start"
  /\ round = 0
  /\ idx = 0
  /\ chunkIdx = 0
  /\ events = <<>>
  /\ transcript = <<>>
  /\ totalTokens = 0
  /\ calls = <<>>
  /\ results = <<>>
  /\ settleOrder = <<>>
  /\ abandoned = 0
  /\ pulls = 0
  /\ router = [providerCache |-> [m \in {} |-> 0], created |-> 0]
  /\ recorder = NewRecorder
  /\ terminal = NewTerminal
  /\ caller \in Launches
  /\ retry = NoRetry

\* from the command or tool call to the first request for an event
NextLaunch ==
  \/ ResolveConfig
  \/ ApplyRounds
  \/ LoadToolConfig
  \/ ApplyMaxRounds
  \/ Discuss
  \/ AgoraDiscuss

SpecLaunch == InitLaunch /\ [][NextLaunch]_vars

\* ------------------------------------------------------ providers/retry.ts
\* withRetry(fn, maxRetries = 3).  retry.pc is the position in the function:
\* "test" at the loop condition, "fn" awaiting fn(), "delay" awaiting the
\* timer, "returned" and "thrown" when its promise is settled.  retry.log
\* lists what the function did to the outside: calls of fn with the attempt
\* number, the settlements of fn's promises, and the setTimeout delays.
\* lastError is <<>> while undefined.
BACKOFF_MS == <<500, 1000, 2000, 4000>>

\* const delay = BACKOFF_MS[attempt] ?? 4000  (attempt counts from 0)
delay(attempt) ==
  IF attempt + 1 \in DOMAIN BACKOFF_MS THEN BACKOFF_MS[attempt + 1] ELSE 4000

LogEntry(op, attempt, what, ms) ==
  [op |-> op, attempt |-> attempt, what |-> what, ms |-> ms]

\* what fn() can resolve to and reject with; "e429" is an Error whose status
\* is 429, for which the function also writes a line to stderr
Values == {"v1", "v2"}
Errors == {"e500", "e429"}

\* the maxRetries argument: <<>> when omitted
MaxRetriesArgs == {<<>>} \cup {<<m>> : m \in (0 - 1)..MaxRetriesArg}

\* for (...; attempt <= maxRetries; ...) { try { return await fn();
CallFn ==
  /\ retry.pc = "test"
  /\ retry.attempt <= retry.maxRetries
  /\ retry' = [retry EXCEPT !.pc = "fn",
                            !.running = @ + 1,
                            !.log = Append(@, LogEntry("call", retry.attempt, "", 0))]
  /\ UNCHANGED <<recorder, caller, terminal, router, pulls, config, pc, round, idx,
                 chunkIdx, events, transcript, totalTokens, calls, results,
                 settleOrder, abandoned>>

\* return await fn(): fn's promise fulfils and withRetry returns its value
FnResolves ==
  /\ retry.pc = "fn"
  /\ \E v \in Values :
       retry' = [retry EXCEPT !.pc = "returned",
                              !.running = @ - 1,
                              !.log = Append(@, LogEntry("resolve", retry.attempt, v, 0)),
                              !.settled = <<"return", v>>]
  /\ UNCHANGED <<recorder, caller, terminal, router, pulls, config, pc, round, idx,
                 chunkIdx, events, transcript, totalTokens, calls, results,
                 settleOrder, abandoned>>

\* variant: the delay is awaited after every failed attempt
FnRejects_alwaysWaits ==
  /\ retry.pc = "fn"
  /\ \E err \in Errors :
       LET caught == [retry EXCEPT
                        !.running = @ - 1,
                        !.lastError = <<err>>,
                        !.log = Append(@, LogEntry("reject", retry.attempt, err, 0))]
       IN retry' = [caught EXCEPT
                      !.pc = "delay",
                      !.log = Append(@, LogEntry("wait", retry.attempt, "",
                                                 delay(retry.attempt)))]
  /\ UNCHANGED <<recorder, caller, terminal, router, pulls, config, pc, round, idx,
                 chunkIdx, events, transcript, totalTokens, calls, results,
                 settleOrder, abandoned>>

\* catch (err) { lastError = err; if (attempt < maxRetries) { ... await new
\* Promise((r) => setTimeout(r, delay)) } }: the timer is started, or the
\* loop goes straight to attempt++
FnRejects ==
  /\ retry.pc = "fn"
  /\ \E err \in Errors :
       LET caught == [retry EXCEPT
                        !.running = @ - 1,
                        !.lastError = <<err>>,
                        !.log = Append(@, LogEntry("reject", retry.attempt, err, 0))]
       IN IF retry.attempt < retry.maxRetries
          THEN retry' = [caught EXCEPT
                           !.pc = "delay",
                           !.log = Append(@, LogEntry("wait", retry.attempt, "",
                                                      delay(retry.attempt)))]
          ELSE retry' = [caught EXCEPT !.pc = "test", !.attempt = @ + 1]
  /\ UNCHANGED <<recorder, caller, terminal, router, pulls, config, pc, round, idx,
                 chunkIdx, events, transcript, totalTokens, calls, results,
                 settleOrder, abandoned>>

\* the timer fires: the catch block ends and the loop does attempt++
DelayElapses ==
  /\ retry.pc = "delay"
  /\ retry' = [retry EXCEPT !.pc = "test", !.attempt = @ + 1]
  /\ UNCHANGED <<recorder, caller, terminal, router, pulls, config, pc, round, idx,
                 chunkIdx, events, transcript, totalTokens, calls, results,
                 settleOrder, abandoned>>

\* the loop condition fails: throw lastError
ThrowLastError ==
  /\ retry.pc = "test"
  /\ ~(retry.attempt <= retry.maxRetries)
  /\ retry' = [retry EXCEPT !.pc = "thrown", !.settled = <<"throw", retry.lastError>>]
  /\ UNCHANGED <<recorder, caller, terminal, router, pulls, config, pc, round, idx,
                 chunkIdx, events, transcript, totalTokens, calls, results,
                 settleOrder, abandoned>>

\* withRetry(fn) or withRetry(fn, m) has been called: let lastError;
\* attempt = 0
InitRetry ==
  /\ config = NoConfig
  /\ pc = "start"
  /\ round = 0
  /\ idx = 0
  /\ chunkIdx = 0
  /\ events = <<>>
  /\ transcript = <<>>
  /\ totalTokens = 0
  /\ calls = <<>>
  /\ results = <<>>
  /\ settleOrder = <<>>
  /\ abandoned = 0
  /\ pulls = 0
  /\ router = [providerCache |-> [m \in {} |-> 0], created |-> 0]
  /\ recorder = NewRecorder
  /\ terminal = NewTerminal
  /\ caller = NoCaller
  /\ \E arg \in MaxRetriesArgs :
       retry = [NoRetry EXCEPT !.maxRetries = IF arg = <<>> THEN 3 ELSE arg[1],
                               !.pc = "test"]

NextRetry ==
  \/ CallFn
  \/ FnResolves
  \/ FnRejects
  \/ DelayElapses
  \/ ThrowLastError

SpecRetry == InitRetry /\ [][NextRetry]_vars

TypeOK ==
  /\ pc \in {"start", "loop", "fanout", "join", "emit", "replay", "done_concurrent",
             "turn", "invoke", "await", "done_sequential", "round_end",
             "synth_invoke", "synth_await", "stats", "done"}
  /\ round \in 0..(MaxRounds + 1)
  /\ abandoned \in 0..Len(calls)

\* ------------------------------------------------------- event-stream views
ValidConfig == Len(panelists) >= 1 /\ synthesizer # Undefined

EventsOfType(t) == SelectSeq(events, LAMBDA e : e.type = t)

PanelistPos(id) == CHOOSE k \in 1..N : panelists[k].id = id

IsAgentScoped(e) ==
  \/ e.type \in {"agent_start", "agent_chunk", "agent_done"}
  \/ e.type = "error" /\ e.agentId # ""

RoundCalls(r) == {c \in DOMAIN calls : calls[c].round = r}

\* ----------------------------------------------------------------------- C1
RoundMarks ==
  [i \in 1..Len(SelectSeq(events, LAMBDA e : e.type \in {"round_start", "round_end"})) |->
     LET e == SelectSeq(events, LAMBDA x : x.type \in {"round_start", "round_end"})[i]
     IN <<e.type, e.round, e.mode>>]

ExpectedRoundMarks(m) ==
  [i \in 1..(2 * m) |->
     IF i % 2 = 1
     THEN <<"round_start", (i + 1) \div 2,
            IF i = 1 THEN "concurrent" ELSE "sequential">>
     ELSE <<"round_end", i \div 2, "">>]

\* C1: with at least one panelist and a synthesizer, the round_start and
\* round_end events of a run are round_start(1), round_end(1), ...,
\* round_start(M), round_end(M) in this order: exactly M pairs once the run
\* has ended, round 1 concurrent and every later round sequential, whatever
\* panelists failed or timed out.
C1_RoundPairs ==
  ValidConfig =>
    /\ IsPrefix(RoundMarks, ExpectedRoundMarks(config.maxRounds))
    /\ pc = "done" => RoundMarks = ExpectedRoundMarks(config.maxRounds)

C1_Witness ==
  /\ pc = "done"
  /\ config.maxRounds >= 2
  /\ Len(RoundMarks) = 2 * config.maxRounds
  /\ \E c \in RoundCalls(1) : calls[c].reason = ProviderReason
  /\ \E c \in RoundCalls(2) : calls[c].promise = "rejected" /\ calls[c].reason # ProviderReason

\* ----------------------------------------------------------------------- C2
DoneEntries ==
  [i \in 1..Len(EventsOfType("agent_done")) |->
     LET e == EventsOfType("agent_done")[i]
     IN [agentId |-> e.agentId, agentName |-> e.agentName, round |-> e.round,
         response |-> e.text, model |-> e.model]]

\* C2: the agent_done events, in emission order, are the transcript entries in
\* append order (same agentId, agentName, round, response and model), each
\* matching exactly one entry; the transcript is ahead of the events by at most
\* the one entry whose agent_done is about to be yielded, never behind, in the
\* concurrent round and in the sequential rounds; at the end they coincide.
C2_DoneMatchesTranscript ==
  /\ IsPrefix(DoneEntries, transcript)
  /\ Len(transcript) <= Len(DoneEntries) + 1
  /\ Len(transcript) = Len(DoneEntries) + 1 => pc \in {"done_concurrent", "done_sequential"}
  /\ pc \in {"done_concurrent", "done_sequential"} => Len(transcript) = Len(DoneEntries) + 1
  /\ \A i \in 1..Len(DoneEntries) :
       Cardinality({j \in 1..Len(transcript) : transcript[j] = DoneEntries[i]}) = 1
  /\ \A j \in 1..Len(transcript) :
       Cardinality({i \in 1..Len(transcript) : transcript[i] = transcript[j]}) = 1

C2_Witness ==
  /\ pc = "done_sequential"
  /\ Len(transcript) = Len(DoneEntries) + 1
  /\ \E i \in 1..Len(DoneEntries) : DoneEntries[i].round = 1
  /\ transcript[Len(transcript)].round >= 2

\* ----------------------------------------------------------------------- C3
InPanelistOrder(ids) ==
  \A i, j \in 1..Len(ids) : i < j => PanelistPos(ids[i]) < PanelistPos(ids[j])

DoneIdsOfRound(r) ==
  LET d == SelectSeq(events, LAMBDA e : e.type = "agent_done" /\ e.round = r)
  IN [i \in 1..Len(d) |-> d[i].agentId]

EntryIdsOfRound(r) ==
  LET t == SelectSeq(transcript, LAMBDA e : e.round = r)
  IN [i \in 1..Len(t) |-> t[i].agentId]

\* C3: within every round the agent_done events, and the transcript entries of
\* that round, appear in the panelist-list order of the config, for every
\* settle order of the round-1 invocations and every set of failed panelists.
C3_PanelistOrder ==
  \A r \in 1..MaxRounds + 1 :
    /\ InPanelistOrder(DoneIdsOfRound(r))
    /\ InPanelistOrder(EntryIdsOfRound(r))

C3_Witness ==
  /\ pc = "round_end"
  /\ round = 1
  /\ N >= 2
  /\ settleOrder[1] = ConcurrentCall(2)
  /\ Len(DoneIdsOfRound(1)) = N

\* ----------------------------------------------------------------------- C4
\* C4: the round-1 invocations are started in one step (none or all N exist),
\* and while any of them is still pending no agent_start, agent_chunk,
\* agent_done or agent-scoped error event has been emitted and the transcript
\* is empty, also when another panelist's call has already finished.
C4_NothingBeforeJoin ==
  /\ Cardinality(RoundCalls(1)) \in {0, N}
  /\ (\E c \in RoundCalls(1) : calls[c].promise = "pending") =>
       /\ transcript = <<>>
       /\ results = <<>>
       /\ \A i \in 1..Len(events) : ~IsAgentScoped(events[i])

C4_Witness ==
  /\ pc = "join"
  /\ \E c, d \in RoundCalls(1) :
       /\ calls[c].promise = "fulfilled" /\ calls[c].parts # <<>>
       /\ calls[d].promise = "pending"
  /\ \A i \in 1..Len(events) : ~IsAgentScoped(events[i])

\* ----------------------------------------------------------------------- C5
FailedIn(r) == {c \in RoundCalls(r) : calls[c].promise = "rejected"}

Round1Emitted ==
  \E i \in 1..Len(events) : events[i].type = "round_end" /\ events[i].round = 1

\* the events between round_start(1) and round_end(1)
Round1Events ==
  LET s == CHOOSE i \in 1..Len(events) :
             events[i].type = "round_start" /\ events[i].round = 1
      t == CHOOSE i \in 1..Len(events) :
             events[i].type = "round_end" /\ events[i].round = 1
  IN SubSeq(events, s + 1, t - 1)

C5_OneFailure ==
  (/\ RoundCalls(1) # {}
   /\ \A c \in RoundCalls(1) : calls[c].promise # "pending"
   /\ Cardinality(FailedIn(1)) = 1) =>
    LET f == CHOOSE c \in FailedIn(1) : TRUE
        fid == calls[f].agentId
    IN /\ pc = "done" \/ round >= 2 => Round1Emitted
       /\ Round1Emitted =>
            /\ Cardinality({i \in 1..Len(Round1Events) :
                              Round1Events[i].type = "error"}) = 1
            /\ \A i \in 1..Len(Round1Events) :
                 /\ Round1Events[i].type = "error" => Round1Events[i].agentId = fid
                 /\ Round1Events[i].type = "agent_done" => Round1Events[i].agentId # fid
            /\ \A j \in 1..Len(transcript) :
                 ~(transcript[j].round = 1 /\ transcript[j].agentId = fid)
            /\ \A c \in RoundCalls(1) \ {f} :
                 /\ Cardinality({i \in 1..Len(Round1Events) :
                      /\ Round1Events[i].type = "agent_done"
                      /\ Round1Events[i].agentId = calls[c].agentId
                      /\ Round1Events[i].text = Flatten(calls[c].parts)}) = 1
                 /\ Cardinality({j \in 1..Len(transcript) :
                      /\ transcript[j].round = 1
                      /\ transcript[j].agentId = calls[c].agentId
                      /\ transcript[j].response = Flatten(calls[c].parts)}) = 1

\* a round-1 invocation that fails or times out changes no sibling invocation
C5_SiblingsUntouched ==
  \A c \in RoundCalls(1) :
    (calls[c].promise = "pending" /\ calls'[c].promise = "rejected") =>
      \A d \in RoundCalls(1) \ {c} : calls'[d] = calls[d]

\* C5: when exactly one round-1 invocation fails (provider rejection or
\* timeout), round 1 emits exactly one error event, carrying that panelist's
\* agentId, no agent_done and no transcript entry for that panelist, one
\* agent_done and one transcript entry with its own response for every other
\* panelist, and round_end(1) is emitted; the failing step leaves every sibling
\* invocation as it was.
C5_SingleFailureIsolated == [](C5_OneFailure) /\ [][C5_SiblingsUntouched]_vars

C5_Witness ==
  /\ N >= 2
  /\ Round1Emitted
  /\ Cardinality(FailedIn(1)) = 1
  /\ \E c \in FailedIn(1) : calls[c].reason # ProviderReason
  /\ \E i \in 1..Len(Round1Events) :
       Round1Events[i].type = "agent_done" /\ Round1Events[i].text # <<>>

\* ----------------------------------------------------------------------- C6
\* the error of invocation c has been reported
Reported(c) == c < Len(calls) \/ pc # "await"

EventIndex(t, id, r) ==
  {i \in 1..Len(events) :
     events[i].type = t /\ events[i].agentId = id /\ events[i].round = r}

LinesOfSection(sec) ==
  {<<sec.round, sec.lines[l].agentName, sec.lines[l].response>> : l \in DOMAIN sec.lines}

LinesOfMessage(msg) == UNION {LinesOfSection(msg.sections[s]) : s \in DOMAIN msg.sections}

\* the transcript lines <<round, agentName, response>> a message list shows
LinesOf(messages) == UNION {LinesOfMessage(messages[m]) : m \in DOMAIN messages}

HasEvent(t, r) == \E i \in 1..Len(events) : events[i].type = t /\ events[i].round = r

C7_SequentialContext ==
  \A c \in DOMAIN calls :
    calls[c].round >= 2 =>
      LET r == calls[c].round
          k == PanelistPos(calls[c].agentId)
          shown == LinesOf(calls[c].messages)
      IN /\ \A j \in 1..Len(transcript) :
              (\/ transcript[j].round < r
               \/ transcript[j].round = r /\ PanelistPos(transcript[j].agentId) < k) =>
                <<transcript[j].round, transcript[j].agentName,
                  transcript[j].response>> \in shown
         /\ \A l \in shown :
              /\ l[1] <= r
              /\ l[1] = r => \E q \in 1..(k - 1) : panelists[q].name = l[2]

C7_Witness ==
  \E c \in DOMAIN calls :
    /\ N >= 2
    /\ calls[c].round = 2
    /\ calls[c].agentId = panelists[2].id
    /\ \E l \in LinesOf(calls[c].messages) : l[1] = 1 /\ l[2] = panelists[2].name
    /\ \E l \in LinesOf(calls[c].messages) : l[1] = 2 /\ l[2] = panelists[1].name

\* ----------------------------------------------------------------------- C8
\* C8: every transcript line in the message list of a panelist turn or of the
\* synthesizer was, when the list was built, already delivered to the consumer
\* as an agent_done event with that round, agent name and response.
C8_ContextAlreadyReported ==
  \A c \in DOMAIN calls :
    \A l \in LinesOf(calls[c].messages) :
      \E i \in 1..calls[c].at :
        /\ events[i].type = "agent_done"
        /\ events[i].round = l[1]
        /\ events[i].agentName = l[2]
        /\ events[i].text = l[3]

C8_Witness ==
  /\ \E c \in RoundCalls(0) : \E l \in LinesOf(calls[c].messages) : l[1] = 2
  /\ \E c \in RoundCalls(2) : \E l \in LinesOf(calls[c].messages) : l[1] = 2

\* ----------------------------------------------------------------------- C9
\* C9: with no panelist-role agent or no synthesizer-role agent the run emits
\* exactly one event, an error event without agentId, and ends; no
\* roundtable_start, no round_start, no provider call, no transcript entry.
C9_ConfigurationError ==
  ~ValidConfig =>
    /\ calls = <<>>
    /\ transcript = <<>>
    /\ \/ pc = "start" /\ events = <<>>
       \/ /\ pc = "done"
          /\ Len(events) = 1
          /\ events[1].type = "error"
          /\ events[1].agentId = ""

C9_Witness ==
  /\ pc = "done"
  /\ Len(panelists) >= 1
  /\ \A i \in DOMAIN config.agents : config.agents[i].role # "synthesizer"
  /\ Len(events) = 1

\* ---------------------------------------------------------------------- C10
NumSynthesizers ==
  Cardinality({i \in DOMAIN config.agents : config.agents[i].role = "synthesizer"})

SynthCalls == {c \in DOMAIN calls : calls[c].round = 0}

SynthFailed ==
  \E c \in SynthCalls : calls[c].promise = "rejected" /\ pc \notin {"synth_await"}

\* the outcome events (agent_done or agent error) of panelist id
OutcomesOf(id) ==
  SelectSeq(events, LAMBDA e : e.type \in {"agent_done", "error"} /\ e.agentId = id)

\* C11: when the synthesizer's invocation fails, the stream ends with
\* synthesis_start followed by exactly one error event that carries no agent
\* id; neither synthesis_done nor roundtable_done is ever emitted, and the
\* events of the panelist rounds (up to round_end of the last round) were
\* all delivered before it.
C11_SynthesisFailure ==
  SynthFailed =>
    /\ pc = "done"
    /\ Len(events) >= 3
    /\ events[Len(events)].type = "error"
    /\ events[Len(events)].agentId = ""
    /\ events[Len(events) - 1].type = "synthesis_start"
    /\ events[Len(events) - 2] = RoundEnd(config.maxRounds)
    /\ Len(EventsOfType("synthesis_start")) = 1
    /\ Len(SelectSeq(events, LAMBDA e : e.type = "error" /\ e.agentId = "")) = 1
    /\ EventsOfType("synthesis_done") = <<>>
    /\ EventsOfType("roundtable_done") = <<>>
    /\ RoundMarks = ExpectedRoundMarks(config.maxRounds)
    /\ \A k \in 1..N : Len(OutcomesOf(panelists[k].id)) = config.maxRounds

C11_Witness ==
  /\ SynthFailed
  /\ config.maxRounds = 2
  /\ Len(transcript) >= 2
  /\ Len(EventsOfType("agent_done")) >= 2
  /\ events[Len(events)].type = "error"

\* ---------------------------------------------------------------------- C12
AllSucceeded == \A c \in DOMAIN calls : calls[c].promise = "fulfilled"

IsChunk(e) == e.type \in {"agent_chunk", "synthesis_chunk"}

\* the events other than chunks, as <<type, agentId, round>>
Skeleton ==
  [i \in 1..Len(SelectSeq(events, LAMBDA e : ~IsChunk(e))) |->
     LET e == SelectSeq(events, LAMBDA x : ~IsChunk(x))[i]
     IN <<e.type, e.agentId, e.round>>]

\* roundtable_start, M blocks of round_start, N x (agent_start, agent_done),
\* round_end, then synthesis_start, synthesis_done, roundtable_done
ExpectedSkeleton ==
  [i \in 1..(config.maxRounds * (2 * N + 2) + 4) |->
     LET j == i - 2
         r == j \div (2 * N + 2) + 1
         o == j % (2 * N + 2)
         k == (o + 1) \div 2
         tailPos == i - (config.maxRounds * (2 * N + 2) + 1)
     IN IF i = 1 THEN <<"roundtable_start", "", 0>>
        ELSE IF tailPos = 1 THEN <<"synthesis_start", "", 0>>
        ELSE IF tailPos = 2 THEN <<"synthesis_done", "", 0>>
        ELSE IF tailPos = 3 THEN <<"roundtable_done", "", 0>>
        ELSE IF o = 0 THEN <<"round_start", "", r>>
        ELSE IF o = 2 * N + 1 THEN <<"round_end", "", r>>
        ELSE IF o % 2 = 1 THEN <<"agent_start", panelists[k].id, r>>
        ELSE <<"agent_done", panelists[k].id, r>>]

\* every chunk event sits between the start and the done event of its agent
ChunksInsideTurns ==
  \A i \in 1..Len(events) :
    /\ events[i].type = "agent_chunk" =>
         /\ i > 1
         /\ events[i - 1].type \in {"agent_start", "agent_chunk"}
         /\ events[i - 1].agentId = events[i].agentId
         /\ i < Len(events) =>
              /\ events[i + 1].type \in {"agent_chunk", "agent_done"}
              /\ events[i + 1].agentId = events[i].agentId
    /\ events[i].type = "synthesis_chunk" =>
         /\ i > 1
         /\ events[i - 1].type \in {"synthesis_start", "synthesis_chunk"}
         /\ i < Len(events) =>
              events[i + 1].type \in {"synthesis_chunk", "synthesis_done"}

\* C12: in a run in which every call succeeds the events are
\* roundtable_start, then per round r = 1..maxRounds round_start(r), per
\* panelist in list order agent_start, agent_chunk*, agent_done, then
\* round_end(r), then synthesis_start, synthesis_chunk*, synthesis_done,
\* roundtable_done. In every run roundtable_start can only be the first
\* event, roundtable_done occurs at most once, is the last event, and carries
\* the answer of the synthesis_done immediately before it.
C12_SuccessShape ==
  /\ (ValidConfig /\ AllSucceeded) =>
       /\ IsPrefix(Skeleton, ExpectedSkeleton)
       /\ ChunksInsideTurns
       /\ pc = "done" => Skeleton = ExpectedSkeleton
  /\ \A i \in 1..Len(events) :
       /\ events[i].type = "roundtable_start" => i = 1
       /\ (ValidConfig /\ i = 1) => events[i].type = "roundtable_start"
       /\ events[i].type = "roundtable_done" =>
            /\ i = Len(events)
            /\ pc = "done"
            /\ i > 1
            /\ events[i - 1].type = "synthesis_done"
            /\ events[i - 1].text = events[i].text
  /\ Len(EventsOfType("roundtable_done")) <= 1

C12_Witness ==
  /\ pc = "done"
  /\ AllSucceeded
  /\ N = 2
  /\ config.maxRounds = 2
  /\ Len(EventsOfType("agent_chunk")) = 4
  /\ events[Len(events)].type = "roundtable_done"
  /\ events[Len(events)].text = <<"a", "b">>

\* ---------------------------------------------------------------------- C13
Failed(c) == calls[c].promise = "rejected"

\* the timer of the call fired
TimedOut(c) ==
  /\ calls[c].promise = "rejected"
  /\ Len(calls[c].reason) >= 3
  /\ calls[c].reason[3] = "timed out after"

\* a call whose outcome the generator has taken up
Handled(c) ==
  IF calls[c].round = 0 THEN pc # "synth_await"
  ELSE IF calls[c].round = 1
  THEN \/ round > 1
       \/ pc = "round_end"
       \/ pc \in {"emit", "replay", "done_concurrent"}
            /\ idx > PanelistPos(calls[c].agentId)
  ELSE Reported(c)

ErrorsOf(id) ==
  SelectSeq(events, LAMBDA e : e.type = "error" /\ e.agentId = id)

HandledFailuresOf(id) ==
  {c \in DOMAIN calls :
     calls[c].round # 0 /\ calls[c].agentId = id /\ Failed(c) /\ Handled(c)}

\* C13: whether provider resolution, the provider stream or the timeout
\* fails, in a panelist turn of any round or in the synthesizer turn,
\* nothing is thrown out of runRoundtable: every failure the generator has
\* taken up is an error event (scoped to the panelist, or agent-less for the
\* synthesizer), the round of a failed panelist turn is closed by its
\* round_end, and the run ends at roundtable_done or at the synthesizer's
\* error event.
C13_NoEscape ==
  /\ pc # "thrown"
  /\ ValidConfig =>
       /\ \A k \in 1..N :
            /\ Len(ErrorsOf(panelists[k].id)) =
                 Cardinality(HandledFailuresOf(panelists[k].id))
            /\ \A c \in HandledFailuresOf(panelists[k].id) :
                 /\ \E i \in 1..Len(events) :
                      events[i] = AgentError(panelists[k], calls[c].reason)
                 /\ round > calls[c].round => HasEvent("round_end", calls[c].round)
       /\ \A c \in SynthCalls :
            (Failed(c) /\ Handled(c)) =>
              /\ pc = "done"
              /\ events[Len(events)] =
                   FatalError(<<"Synthesizer failed">> \o calls[c].reason)
       /\ pc = "done" =>
            /\ events[Len(events)].type \in {"roundtable_done", "error"}
            /\ events[Len(events)].agentId = ""
            /\ RoundMarks = ExpectedRoundMarks(config.maxRounds)

C13_Witness ==
  /\ pc = "done"
  /\ N = 2
  /\ \E c, d \in DOMAIN calls :
       /\ calls[c].round = 1 /\ calls[c].reason = ResolveReason
       /\ calls[d].round = 2 /\ calls[d].reason = ResolveReason
       /\ calls[c].agentId = calls[d].agentId
  /\ \E c \in DOMAIN calls : calls[c].round = 2 /\ TimedOut(c)
  /\ \E c \in SynthCalls : calls[c].reason = ResolveReason
  /\ events[Len(events)].type = "error"

\* ---------------------------------------------------------------------- C14
\* the configured bound in whole seconds, as a decimal numeral
ConfiguredSeconds ==
  LET ms == IF config.agentTimeout = <<>> THEN 120000
            ELSE config.agentTimeout[1] * 100
  IN ToString(CHOOSE n \in 0..200 : ms - 500 < 1000 * n /\ 1000 * n <= ms + 500)

TimeoutErrorOf(c) ==
  LET a == AgentById(calls[c].agentId)
  IN [Blank EXCEPT !.type = "error", !.agentId = a.id,
                   !.error = <<"Agent", a.name, "failed", a.name, a.model,
                               "timed out after", ConfiguredSeconds, "s">>]

C14_TimeoutReported ==
  \A c \in DOMAIN calls :
    (calls[c].round # 0 /\ TimedOut(c) /\ Handled(c)) =>
      /\ \E i \in 1..Len(events) : events[i] = TimeoutErrorOf(c)
      /\ round > calls[c].round =>
           \E i, j \in 1..Len(events) :
             /\ i < j
             /\ events[i] = TimeoutErrorOf(c)
             /\ events[j] = RoundEnd(calls[c].round)

TimedOutIn(r) == \E c \in DOMAIN calls : calls[c].round = r /\ TimedOut(c)

\* C14: a panelist call on which the timer fires yields an error event with
\* that panelist's agentId whose message holds the agent's name, its model
\* and the configured agentTimeout (120 when none is configured) in whole
\* seconds; the round of that call, the concurrent one or a sequential one,
\* goes on to its round_end.
C14_Timeout ==
  /\ []C14_TimeoutReported
  /\ \A r \in 1..2 : TimedOutIn(r) ~> HasEvent("round_end", r)

C14_Witness ==
  /\ pc = "done"
  /\ config.agentTimeout = <<25>>
  /\ N = 2
  /\ \E c, d \in DOMAIN calls :
       /\ calls[c].round = 1 /\ TimedOut(c)
       /\ calls[d].round = 2 /\ TimedOut(d)
       /\ calls[c].agentId # calls[d].agentId
       /\ calls[d].reason[4] = "3"
  /\ HasEvent("round_end", 2)

\* ---------------------------------------------------------------------- C18
CallsOf(id, r) == {c \in DOMAIN calls : calls[c].agentId = id /\ calls[c].round = r}

\* C18: a run starts at most one provider stream call for each panelist in
\* each round and at most one for the synthesizer, N * maxRounds + 1 at most
\* in all; a turn that failed or timed out is not invoked again.
C18_NoRetry ==
  ValidConfig =>
    /\ \A k \in 1..N : \A r \in 1..config.maxRounds :
         Cardinality(CallsOf(panelists[k].id, r)) <= 1
    /\ Cardinality(SynthCalls) <= 1
    /\ \A c \in DOMAIN calls :
         \/ calls[c].round = 0 /\ calls[c].agentId = synthesizer.id
         \/ /\ calls[c].round \in 1..config.maxRounds
            /\ \E k \in 1..N : panelists[k].id = calls[c].agentId
    /\ Len(calls) <= N * config.maxRounds + 1

C18_Witness ==
  /\ pc = "done"
  /\ N = 2
  /\ config.maxRounds = 2
  /\ Len(calls) = N * config.maxRounds + 1
  /\ \E c \in DOMAIN calls : calls[c].round = 1 /\ Failed(c) /\ ~TimedOut(c)
  /\ \E c \in DOMAIN calls : calls[c].round = 2 /\ TimedOut(c)
  /\ \E c \in SynthCalls : Failed(c)

\* ---------------------------------------------------------------------- C15
Pending == {c \in DOMAIN calls : calls[c].promise = "pending"}

InSequentialRound == round >= 2 /\ round <= config.maxRounds

\* C15 as stated: in a sequential round at most one provider stream started
\* by the engine is running, a stream whose invocation timed out included.
C15_OneStreamRunning ==
  InSequentialRound => Cardinality(Pending) + abandoned <= 1

\* C15, amended: in a sequential round at most one invocation is awaited at
\* any time, the one of the current turn, and a turn starts only when every
\* earlier invocation has settled (fulfilled, rejected or timed out); the
\* streams of timed-out invocations may still be running beside it.
C15_OnePendingInvocation ==
  InSequentialRound =>
    /\ Cardinality(Pending) <= 1
    /\ \A c \in Pending :
         /\ c = Current
         /\ pc = "await"
         /\ calls[c].round = round
         /\ calls[c].agentId = panelists[idx].id

C15_Witness ==
  /\ InSequentialRound
  /\ pc = "await"
  /\ idx = 2
  /\ calls[Current].promise = "pending"
  /\ TimedOut(Current - 1)
  /\ calls[Current - 1].round = round
  /\ abandoned >= 1

\* ---------------------------------------------------------------- C16, C17
TurnDone(c) == EventIndex("agent_done", calls[c].agentId, calls[c].round) # {}

\* the events strictly between agent_start and agent_done of the turn of c
TurnSegment(c) ==
  LET s == CHOOSE i \in EventIndex("agent_start", calls[c].agentId, calls[c].round) : TRUE
      d == CHOOSE i \in EventIndex("agent_done", calls[c].agentId, calls[c].round) : TRUE
  IN SubSeq(events, s + 1, d - 1)

\* one agent_chunk event per fragment the stream of c delivered, in order
FragmentEvents(c) ==
  [i \in 1..Len(calls[c].parts) |->
     AgentChunk(AgentById(calls[c].agentId), calls[c].parts[i])]

\* C16: in a round r >= 2 the fragments a panelist's stream produced are
\* agent_chunk events of that agent between the turn's agent_start and
\* agent_done, one per fragment, in arrival order.
C16_SequentialChunks ==
  \A c \in DOMAIN calls :
    (calls[c].round >= 2 /\ calls[c].promise = "fulfilled" /\ TurnDone(c)) =>
      TurnSegment(c) = FragmentEvents(c)

\* a completed round-2 turn whose stream delivered two fragments
C16_Witness ==
  \E c \in DOMAIN calls :
    /\ calls[c].round = 2
    /\ calls[c].promise = "fulfilled"
    /\ Len(calls[c].parts) = 2
    /\ TurnDone(c)
    /\ TurnSegment(c) = <<>>

DoneEventOf(c) ==
  events[CHOOSE i \in EventIndex("agent_done", calls[c].agentId, calls[c].round) : TRUE]

EntriesOf(c) ==
  SelectSeq(transcript,
            LAMBDA e : e.agentId = calls[c].agentId /\ e.round = calls[c].round)

\* C17: for a successful round-1 panelist the events from agent_start to
\* agent_done are agent_start, one agent_chunk per fragment received from
\* the provider in arrival order, agent_done; the chunk texts concatenated
\* are the fullResponse of agent_done and the response of the transcript
\* entry.
C17_ReplayedChunks ==
  \A c \in DOMAIN calls :
    (calls[c].round = 1 /\ calls[c].promise = "fulfilled" /\ TurnDone(c)) =>
      /\ TurnSegment(c) = FragmentEvents(c)
      /\ Flatten([i \in 1..Len(TurnSegment(c)) |-> TurnSegment(c)[i].text]) =
           DoneEventOf(c).text
      /\ Len(EntriesOf(c)) = 1
      /\ EntriesOf(c)[1].response = DoneEventOf(c).text

C17_Witness ==
  \E c, d \in DOMAIN calls :
    /\ c # d
    /\ calls[c].round = 1 /\ calls[d].round = 1
    /\ calls[c].promise = "fulfilled"
    /\ calls[d].promise = "rejected"
    /\ TurnDone(c)
    /\ Len(TurnSegment(c)) = 2
    /\ DoneEventOf(c).text = <<"a", "b">>

\* ---------------------------------------------------------------------- C19
\* ceil(n / 3.5): the least t with 3.5 * t >= n
Ceil35(n) == CHOOSE t \in 0..n : 7 * t >= 2 * n /\ 7 * (t - 1) < 2 * n

RECURSIVE SumOfEstimates(_)
SumOfEstimates(entries) ==
  IF entries = <<>> THEN 0
  ELSE Ceil35(Len(Head(entries).response)) + SumOfEstimates(Tail(entries))

\* C19: the totalTokensEstimate of roundtable_done is the sum of
\* ceil(length / 3.5) over the responses of the transcript entries, one per
\* successful panelist turn, plus ceil(length / 3.5) of the synthesis text;
\* turns that failed or timed out add nothing.
C19_TokenEstimate ==
  \A i \in 1..Len(events) :
    events[i].type = "roundtable_done" =>
      /\ events[i].stats.totalTokensEstimate =
           SumOfEstimates(transcript) + Ceil35(Len(events[i].text))
      /\ Len(transcript) =
           Cardinality({c \in DOMAIN calls :
                          calls[c].round # 0 /\ calls[c].promise = "fulfilled"})

C19_Witness ==
  /\ pc = "done"
  /\ events[Len(events)].type = "roundtable_done"
  /\ events[Len(events)].stats.totalTokensEstimate = 3
  /\ Len(transcript) = 3
  /\ \E c \in DOMAIN calls : calls[c].round # 0 /\ Failed(c)
  /\ \E j \in DOMAIN transcript : transcript[j].response = <<>>

\* ---------------------------------------------------------------------- C20
\* C20: every roundtable_done carries totalRounds = config.maxRounds and
\* totalAgents = number of panelists + 1, however many panelist turns
\* failed; no other event carries stats, and roundtable_done is emitted only
\* when the synthesizer's invocation succeeded.
C20_Stats ==
  \A i \in 1..Len(events) :
    IF events[i].type = "roundtable_done"
    THEN /\ events[i].stats.totalRounds = config.maxRounds
         /\ events[i].stats.totalAgents = Len(getPanelists(config.agents)) + 1
         /\ \E c \in SynthCalls : calls[c].promise = "fulfilled"
    ELSE events[i].stats = NoStats

C20_Witness ==
  /\ pc = "done"
  /\ events[Len(events)].type = "roundtable_done"
  /\ events[Len(events)].stats.totalRounds = 2
  /\ events[Len(events)].stats.totalAgents = 3
  /\ Len(config.agents) = 3
  /\ transcript = <<>>
  /\ Cardinality({c \in DOMAIN calls : Failed(c)}) = 4

\* ---------------------------------------------------------------------- C21
TranscriptStep ==
  \/ transcript' = transcript
  \/ /\ Len(transcript') = Len(transcript) + 1
     /\ SubSeq(transcript', 1, Len(transcript)) = transcript

\* entries ascend by (round, position of the agent in the panelist list)
TranscriptOrdered ==
  \A i, j \in DOMAIN transcript :
    i < j =>
      \/ transcript[i].round < transcript[j].round
      \/ /\ transcript[i].round = transcript[j].round
         /\ PanelistPos(transcript[i].agentId) < PanelistPos(transcript[j].agentId)

\* C21: the transcript is append-only: each step leaves it unchanged or adds
\* one entry at its end, so that no entry is removed, modified or reordered;
\* its entries ascend by (round, panelist list position), with at most one
\* entry per (agent, round).
C21_AppendOnly == [][TranscriptStep]_vars /\ []TranscriptOrdered

C21_Witness ==
  /\ Len(transcript) = 3
  /\ N = 2
  /\ transcript[1].round = 1
  /\ transcript[2].round = 2
  /\ transcript[3].round = 2
  /\ \E c \in DOMAIN calls : calls[c].round = 1 /\ Failed(c)

\* ---------------------------------------------------------------------- C22
\* the event the consumer had been handed last when call c was started
EventBefore(c) == events[calls[c].at]

StartedAfterItsEvent(c) ==
  /\ calls[c].at >= 1
  /\ pulls > calls[c].at
  /\ IF calls[c].round = 0 THEN EventBefore(c).type = "synthesis_start"
     ELSE IF calls[c].round = 1 THEN EventBefore(c) = RoundStart(1)
     ELSE EventBefore(c) = AgentStart(AgentById(calls[c].agentId), calls[c].round)

\* a step that starts a provider call or produces an event
Produces == Len(calls') > Len(calls) \/ Len(events') > Len(events)

\* C22: the engine works only for an event the consumer has asked for: the
\* calls of round 1 start only after the consumer has asked for the event
\* after round_start(1), the call of a sequential turn only after it has
\* asked for the event after the turn's agent_start, the synthesizer's call
\* only after it has asked for the event after synthesis_start; while the
\* consumer does not ask, no call is started and no event is produced.
C22_ConsumerPaced ==
  /\ [](\A c \in DOMAIN calls : StartedAfterItsEvent(c))
  /\ [][Produces => pulls > Len(events) /\ pulls' = pulls]_vars
  /\ [](pulls <= Len(events) + 1)

\* the round-1 join: three calls were started for one requested event, and
\* the consumer has asked for nothing since
C22_Witness ==
  /\ pc = "join"
  /\ N >= 2
  /\ Len(calls) = N
  /\ pulls = 3
  /\ Len(events) = 2
  /\ \A c \in DOMAIN calls : calls[c].promise = "fulfilled"

\* ---------------------------------------------------------------------- C23
\* every entry of the cache is kept as it is
EntriesKept ==
  \A m \in DOMAIN router.providerCache :
    /\ m \in DOMAIN router'.providerCache
    /\ router'.providerCache[m] = router.providerCache[m]

\* an instance is built exactly when an entry is added
BuiltOnMissOnly ==
  router'.created - router.created =
    Cardinality(DOMAIN router'.providerCache \ DOMAIN router.providerCache)

\* every call that got a provider got the instance the cache holds for its model
SameInstance ==
  \A c \in DOMAIN calls :
    calls[c].provider # 0 =>
      /\ AgentById(calls[c].agentId).model \in DOMAIN router.providerCache
      /\ router.providerCache[AgentById(calls[c].agentId).model] = calls[c].provider

\* C23: the provider cache is filled on demand and never invalidated: an
\* entry, once stored, is neither removed nor replaced; a lookup of a cached
\* model builds no instance; every call of the run, and of another
\* discussion resolving beside it, is given the one instance stored for its
\* model.
C23_CacheStable ==
  /\ [][EntriesKept /\ BuiltOnMissOnly]_vars
  /\ []SameInstance
  /\ [](router.created = Cardinality(DOMAIN router.providerCache))

C23_Witness ==
  /\ pc = "done"
  /\ N = 2
  /\ router.created = 2
  /\ \E c, d \in DOMAIN calls :
       /\ c < d
       /\ calls[c].agentId # calls[d].agentId
       /\ calls[c].provider = calls[d].provider
       /\ calls[c].provider = 2
  /\ \E c \in DOMAIN calls : calls[c].provider = 0

\* ---------------------------------------------------------------------- C24
PanelistCalls == {c \in DOMAIN calls : calls[c].round # 0}

StartsWithClaude(model) ==
  /\ Len(Chars(model)) >= 7
  /\ SubSeq(Chars(model), 1, 7) = <<"c", "l", "a", "u", "d", "e", "-">>

\* C24: in every message list built for a panelist the system message and
\* the accumulated-context message carry the cache flag exactly when the
\* agent's model id starts with 'claude-', and the per-turn message never
\* carries it.
C24_CacheFlags ==
  \A c \in PanelistCalls :
    LET ms == calls[c].messages
        eligible == StartsWithClaude(AgentById(calls[c].agentId).model)
    IN \A i \in DOMAIN ms :
         /\ ms[i].kind \in {"system", "accumulated"} =>
              (ms[i].cache_control <=> eligible)
         /\ ms[i].kind = "turn" => ~ms[i].cache_control

C24_Witness ==
  \E c, d \in PanelistCalls :
    /\ Len(calls[c].messages) = 3 /\ Len(calls[d].messages) = 3
    /\ AgentById(calls[c].agentId).model = "claude-m"
    /\ AgentById(calls[d].agentId).model = "claudia-m"
    /\ calls[c].messages[1].cache_control
    /\ calls[c].messages[2].cache_control
    /\ ~calls[d].messages[1].cache_control
    /\ ~calls[d].messages[2].cache_control
    /\ calls[d].messages[3].sections # <<>>

\* ---------------------------------------------------------------------- C25
Kinds(ms) == [i \in DOMAIN ms |-> ms[i].kind]

\* C25: buildPanelistMessages returns the two-message form (system message
\* and one user message with the topic and the share-your-perspective
\* instruction) exactly for the turns of round 1, where the transcript is
\* empty; for every turn of a round >= 2, also when the transcript is still
\* empty, it returns system, accumulated context, per-turn message.
C25_MessageForm ==
  \A c \in PanelistCalls :
    IF calls[c].round = 1
    THEN Kinds(calls[c].messages) = <<"system", "simple">>
    ELSE Kinds(calls[c].messages) = <<"system", "accumulated", "turn">>

\* a turn of round 2 that is given the two-message form
C25_Witness ==
  \E c \in PanelistCalls :
    /\ calls[c].round = 2
    /\ Kinds(calls[c].messages) = <<"system", "simple">>
    /\ \A d \in PanelistCalls : calls[d].round = 1 => Failed(d)

\* ---------------------------------------------------------------------- C26
\* what a message says, the cache flag left aside
Content(msg) == [kind |-> msg.kind, topic |-> msg.topic, round |-> msg.round,
                 sections |-> msg.sections]

\* C26: in a round r >= 2 the second message, the accumulated context, has
\* the same content for all panelists of the round.
C26_SharedContext ==
  \A c, d \in PanelistCalls :
    (calls[c].round >= 2 /\ calls[c].round = calls[d].round) =>
      Content(calls[c].messages[2]) = Content(calls[d].messages[2])

\* two turns of round 2 whose second messages differ
C26_Witness ==
  \E c, d \in PanelistCalls :
    /\ calls[c].round = 2 /\ calls[d].round = 2
    /\ calls[c].messages[2].kind = "simple"
    /\ calls[d].messages[2].kind = "accumulated"

\* ---------------------------------------------------------------------- C27
\* the lines <<round, agentName, response>> of rendered sections, in order
RECURSIVE SectionLines(_)
SectionLines(secs) ==
  IF secs = <<>> THEN <<>>
  ELSE [i \in 1..Len(Head(secs).lines) |->
          <<Head(secs).round, Head(secs).lines[i].agentName,
            Head(secs).lines[i].response>>]
       \o SectionLines(Tail(secs))

EntryLines(entries) ==
  [i \in 1..Len(entries) |->
     <<entries[i].round, entries[i].agentName, entries[i].response>>]

\* C27: a run with a panelist and a synthesizer invokes the synthesizer
\* once, after round_end(maxRounds), with two messages, the system message
\* and one user message, and the user message holds every transcript entry,
\* one per successful turn of any round and none for a failed one, in
\* transcript order.
C27_SynthesizerInvocation ==
  ValidConfig =>
    /\ Cardinality(SynthCalls) <= 1
    /\ pc \in {"synth_await", "stats", "done"} => Cardinality(SynthCalls) = 1
    /\ \A c \in SynthCalls :
         /\ calls[c].agentId = synthesizer.id
         /\ calls[c].at >= 2
         /\ events[calls[c].at].type = "synthesis_start"
         /\ events[calls[c].at - 1] = RoundEnd(config.maxRounds)
         /\ Kinds(calls[c].messages) = <<"system", "synthesis">>
         /\ calls[c].messages[2].role = "user"
         /\ SectionLines(calls[c].messages[2].sections) = EntryLines(transcript)
         /\ Len(transcript) =
              Cardinality({d \in PanelistCalls : calls[d].promise = "fulfilled"})

C27_Witness ==
  /\ pc = "done"
  /\ N = 2
  /\ Len(transcript) = 3
  /\ \E d \in PanelistCalls : Failed(d)
  /\ \E c \in SynthCalls : Len(calls[c].messages[2].sections) = 2

\* ---------------------------------------------------------------------- C28
\* one section per round, in ascending round number, none empty
WellSectioned(secs) ==
  /\ \A i, j \in DOMAIN secs : i < j => secs[i].round < secs[j].round
  /\ \A i \in DOMAIN secs : secs[i].lines # <<>>

\* the entry list a message of call c was rendered from
EntriesRendered(c, msg) ==
  IF msg.kind = "synthesis" THEN transcript
  ELSE IF msg.kind = "accumulated"
  THEN SelectSeq(transcript, LAMBDA e : e.round < calls[c].round)
  ELSE IF msg.kind = "turn"
  THEN SelectSeq(transcript,
                 LAMBDA e : /\ e.round = calls[c].round
                            /\ PanelistPos(e.agentId) < PanelistPos(calls[c].agentId))
  ELSE <<>>

\* C28: for every entry list the engine passes to it formatTranscript
\* renders one section per round in ascending round number, and within the
\* sections the entries in the order they have in the list.
C28_FormatTranscript ==
  ValidConfig =>
    /\ WellSectioned(formatTranscript(transcript))
    /\ SectionLines(formatTranscript(transcript)) = EntryLines(transcript)
    /\ \A c \in DOMAIN calls : \A i \in DOMAIN calls[c].messages :
         /\ WellSectioned(calls[c].messages[i].sections)
         /\ SectionLines(calls[c].messages[i].sections) =
              EntryLines(EntriesRendered(c, calls[c].messages[i]))

C28_Witness ==
  /\ Len(formatTranscript(transcript)) = 2
  /\ Len(formatTranscript(transcript)[1].lines) = 2
  /\ Len(formatTranscript(transcript)[2].lines) = 2
  /\ \E c \in PanelistCalls :
       /\ Len(calls[c].messages) = 3
       /\ calls[c].messages[2].sections # <<>>
       /\ calls[c].messages[3].sections # <<>>

\* ---------------------------------------------------------------------- C29
\* the configuration roundtable_start reported when the run began
StartReport ==
  events # <<>> /\ events[1].type = "roundtable_start" =>
    /\ events[1].maxRounds = config.maxRounds
    /\ events[1].agents =
         [i \in 1..Len(SelectSeq(config.agents, LAMBDA a : a.role = "panelist")) + 1 |->
            IF i <= Len(SelectSeq(config.agents, LAMBDA a : a.role = "panelist"))
            THEN SelectSeq(config.agents, LAMBDA a : a.role = "panelist")[i].name
            ELSE synthesizer.name]

\* C29: no step of runRoundtable changes config: its agents (order, length
\* and every field), maxRounds and agentTimeout stay what they were when the
\* run began.
C29_ConfigUnchanged == [][config' = config]_vars /\ []StartReport

C29_Witness ==
  /\ pc = "done"
  /\ config.agentTimeout = <<25>>
  /\ config.maxRounds = 2
  /\ Len(config.agents) = 3
  /\ events[Len(events)].type = "roundtable_done"
  /\ Len(transcript) = 4

\* ---------------------------------------------------------------------- C30
\* a settled invocation stays as it settled
SettledStays ==
  \A c \in DOMAIN calls : calls[c].promise # "pending" => calls'[c] = calls[c]

\* the three ways an invocation settles
SettlesProperly ==
  \A c \in DOMAIN calls :
    (calls[c].promise = "pending" /\ calls'[c].promise # "pending") =>
      \/ /\ calls'[c].promise = "fulfilled"
         /\ calls'[c].parts = calls[c].parts
         /\ abandoned' = abandoned
      \/ /\ calls'[c].promise = "rejected"
         /\ calls'[c].reason = ProviderReason
         /\ abandoned' = abandoned
      \/ /\ calls'[c].promise = "rejected"
         /\ calls'[c].reason = TimeoutReason(AgentById(calls[c].agentId))
         /\ abandoned' = abandoned + 1

\* the end of a stream whose invocation timed out changes nothing else
LateEndIgnored ==
  abandoned' < abandoned =>
    /\ calls' = calls
    /\ events' = events
    /\ transcript' = transcript
    /\ pc' = pc

\* the timer of a settled invocation cannot fire
TimerCleared ==
  \A c \in DOMAIN calls : calls[c].promise # "pending" => ~ENABLED Timeout(c)

\* C30: a bounded invocation settles once: with the value of the call when
\* the call ends first, with the call's own failure when it fails first,
\* with the timeout failure when the timer fires first; what happens second
\* changes nothing, and the timer is cleared when the call settles first.
C30_SettlesOnce ==
  /\ [][SettledStays /\ SettlesProperly /\ LateEndIgnored]_vars
  /\ []TimerCleared

C30_Witness ==
  /\ abandoned = 0
  /\ \E c, d, e \in DOMAIN calls :
       /\ calls[c].promise = "fulfilled" /\ calls[c].parts # <<>>
       /\ calls[d].promise = "rejected" /\ calls[d].reason = ProviderReason
       /\ TimedOut(e)

\* ------------------------------------------------------------------- C31
\* C31: the recorder sink is called exactly once for every event the engine
\* emits, in emission order, and before the event goes on to the next
\* consumer, under withRecording and in agora_discuss: the events it was
\* called with are always a prefix of the emitted ones (none skipped, doubled
\* or reordered), every event the caller's loop received has been handled,
\* nothing is rendered or accumulated that has not been handled, and whenever
\* the engine is asked for another event, and when the caller returns, every
\* emitted event has been handled.
C31_RecordedOnce ==
  /\ IsPrefix(recorder.handled, events)
  /\ Len(recorder.handled) = caller.taken
  /\ terminal.rendered <= Len(recorder.handled)
  /\ caller.entry = "mcp" =>
       Len(caller.transcript) =
         Len(SelectSeq(recorder.handled, LAMBDA e : e.type = "agent_done"))
  /\ (Resumed \/ caller.stage = "returned") => recorder.handled = events

\* withRecording has recorded a replayed fragment the renderer has not been
\* given yet, after a panelist turn was recorded and rendered
C31_Witness ==
  /\ caller.entry = "cli"
  /\ caller.stage = "running"
  /\ terminal.rendered < Len(recorder.handled)
  /\ recorder.handled[Len(recorder.handled)].type = "agent_chunk"
  /\ \E k \in 1..terminal.rendered : recorder.handled[k].type = "agent_done"
  /\ recorder.handled = events

\* ------------------------------------------------------------------- C32
\* C32: the config that reaches runRoundtable from the discuss command and
\* from the agora_discuss tool is fully validated: its maxRounds is an
\* integer from 1 to 10, also when --rounds or the maxRounds argument is
\* given.
C32_ValidatedConfig ==
  caller.stage = "running" =>
    /\ validAgents(config.agents)
    /\ isInteger(config.maxRounds)
    /\ config.maxRounds[1] \in 1..10

\* runRoundtable was called with the maxRounds of a preset file, no --rounds
\* given
C32_Witness ==
  /\ caller.stage = "running"
  /\ caller.entry = "cli"
  /\ caller.rounds = <<>>
  /\ caller.preset # <<>>
  /\ config.maxRounds = Num(3)

\* ------------------------------------------------------------------- C33
\* C33: a run whose stream ended without roundtable_done (configuration error
\* or synthesizer failure) is treated as a failed discussion by the caller:
\* agora_discuss does not return a normal successful result for it.
C33_FailureReported ==
  (/\ caller.entry = "mcp"
   /\ caller.stage = "returned"
   /\ ~HasEvent("roundtable_done", 0)) =>
    caller.result[1].isError

\* the tool has returned the result of a run that ended with roundtable_done:
\* two transcript items and the synthesized answer
C33_Witness ==
  /\ caller.entry = "mcp"
  /\ caller.stage = "returned"
  /\ HasEvent("roundtable_done", 0)
  /\ ~caller.result[1].isError
  /\ Len(caller.result[1].transcript) = 2
  /\ caller.result[1].synthesis = <<"a", "b">>

\* ------------------------------------------------------------------- C34
\* the stream has ended, and its last event is roundtable_done or an error
\* event that is not scoped to an agent
Ended ==
  /\ pc = "done"
  /\ events # <<>>
  /\ LET last == events[Len(events)]
     IN \/ last.type = "roundtable_done"
        \/ last.type = "error" /\ last.agentId = ""

\* C34: for every config and every provider behaviour (each call finishes,
\* fails or never finishes), if the consumer keeps pulling and the timers
\* fire, the run terminates: the stream ends, after roundtable_done or a
\* terminal error event, and stays ended.
C34_Terminates == <>[]Ended

\* a run ended with roundtable_done although a panelist call of each round
\* had to be given up on its timer
C34_Witness ==
  /\ Ended
  /\ ValidConfig
  /\ HasEvent("roundtable_done", 0)
  /\ \A r \in 1..2 : \E c \in DOMAIN calls : calls[c].round = r /\ TimedOut(c)

\* ------------------------------------------------------------------- C35
RoundStartAt(r) == CHOOSE i \in 1..Len(events) : events[i] = RoundStart(r)
RoundEndAt(r) == CHOOSE i \in 1..Len(events) : events[i] = RoundEnd(r)

\* the positions of the outcome events between round_start(r) and round_end(r)
OutcomesIn(r) ==
  {i \in RoundStartAt(r)..RoundEndAt(r) :
     \/ events[i].type = "agent_done"
     \/ events[i].type = "error" /\ events[i].agentId # ""}

\* C35: in every round that reaches round_end, each panelist has exactly one
\* outcome event between round_start(r) and round_end(r), an agent_done or an
\* error event carrying its agentId, never both and never neither; so the
\* agent_done and agent-scoped error events of the round number exactly N.
C35_OneOutcome ==
  \A r \in 1..config.maxRounds :
    HasEvent("round_end", r) =>
      /\ \A k \in 1..N :
           Cardinality({i \in OutcomesIn(r) : events[i].agentId = panelists[k].id}) = 1
      /\ Cardinality(OutcomesIn(r)) = N
      /\ \A i \in OutcomesIn(r) :
           events[i].type = "agent_done" => events[i].round = r

\* both rounds have ended, each with one agent_done and one scoped error
C35_Witness ==
  /\ HasEvent("round_end", 2)
  /\ N = 2
  /\ \A r \in 1..2 :
       /\ \E i \in OutcomesIn(r) : events[i].type = "agent_done"
       /\ \E i \in OutcomesIn(r) : events[i].type = "error"

\* ------------------------------------------------------------------- C36
\* the turn opened by the agent_start at position i is over: a later
\* agent_start or round_end has been emitted
TurnClosed(i) ==
  \E j \in (i + 1)..Len(events) : events[j].type \in {"agent_start", "round_end"}

\* the positions after i up to the next agent_start or round_end
TurnAfter(i) ==
  {j \in (i + 1)..Len(events) :
     \A m \in (i + 1)..j : events[m].type \notin {"agent_start", "round_end"}}

IsOutcome(e) == e.type = "agent_done" \/ (e.type = "error" /\ e.agentId # "")

\* C36 (as stated): every agent_start(agent, r) is followed, before the next
\* agent_start and before round_end(r), by an agent_done event of the same
\* agent and round, in concurrent and sequential rounds alike.
C36_StartThenDone ==
  \A i \in 1..Len(events) :
    (events[i].type = "agent_start" /\ TurnClosed(i)) =>
      \E j \in TurnAfter(i) :
        /\ events[j].type = "agent_done"
        /\ events[j].agentId = events[i].agentId
        /\ events[j].round = events[i].round

\* C36 (amended): every agent_start(agent, r) is followed, before the next
\* agent_start and before round_end(r), by exactly one outcome event of the
\* same agent, and no outcome event of another agent comes before it: in the
\* concurrent round always agent_done(agent, r), in a sequential round
\* agent_done(agent, r) or an error event carrying the agent's id.
C36_StartThenOutcome ==
  \A i \in 1..Len(events) :
    (events[i].type = "agent_start" /\ TurnClosed(i)) =>
      LET own == {j \in TurnAfter(i) :
                    IsOutcome(events[j]) /\ events[j].agentId = events[i].agentId}
      IN /\ Cardinality(own) = 1
         /\ \A j \in own :
              /\ events[j].type = "agent_done" => events[j].round = events[i].round
              /\ isConcurrentRound(events[i].round) => events[j].type = "agent_done"
              /\ \A m \in TurnAfter(i) : (m < j) => ~IsOutcome(events[m])

\* round 2 has ended; one of its turns was announced and ended with an error
\* event, another with agent_done, and round 1 had a turn with agent_done
C36_Witness ==
  /\ HasEvent("round_end", 2)
  /\ \E i \in 1..Len(events) :
       /\ events[i].type = "agent_start"
       /\ events[i].round = 2
       /\ events[i + 1].type = "error"
       /\ events[i + 1].agentId = events[i].agentId
  /\ \E i \in 1..Len(events) :
       /\ events[i].type = "agent_start"
       /\ events[i].round = 2
       /\ events[i + 1].type = "agent_done"
  /\ \E i \in 1..Len(events) :
       events[i].type = "agent_start" /\ events[i].round = 1

\* ------------------------------------------------------------------- C37
\* a stream given up on delivers a fragment or comes to its end
LateStep ==
  \/ abandoned' < abandoned
  \/ \E c \in DOMAIN calls : TimedOut(c) /\ calls'[c].parts # calls[c].parts

\* such a step yields nothing, records nothing and leaves the generator where
\* it is
LateStepInert ==
  LateStep =>
    /\ events' = events
    /\ transcript' = transcript
    /\ totalTokens' = totalTokens
    /\ results' = results
    /\ pc' = pc
    /\ Len(calls') = Len(calls)

\* no step changes an invocation that settled without timing out, and one
\* that timed out stays rejected with the timeout failure
OthersUntouched ==
  \A d \in DOMAIN calls :
    /\ (calls[d].promise # "pending" /\ ~TimedOut(d)) => calls'[d] = calls[d]
    /\ TimedOut(d) => /\ calls'[d].promise = "rejected"
                      /\ calls'[d].reason = calls[d].reason

\* the fulfilled invocations of (agent id, round)
FulfilledOf(id, r) ==
  {c \in DOMAIN calls :
     calls[c].agentId = id /\ calls[c].round = r /\ calls[c].promise = "fulfilled"}

\* every response text in an event or in the transcript is the text of a
\* fulfilled invocation of that agent and round (round 0: the synthesis), and
\* an invocation that timed out has no agent_done event and no entry
RecordedFromOwnCall ==
  /\ \A i \in 1..Len(events) :
       /\ events[i].type = "agent_done" =>
            \E c \in FulfilledOf(events[i].agentId, events[i].round) :
              events[i].text = Flatten(calls[c].parts)
       /\ events[i].type \in {"synthesis_done", "roundtable_done"} =>
            \E c \in FulfilledOf(synthesizer.id, 0) :
              events[i].text = Flatten(calls[c].parts)
  /\ \A k \in 1..Len(transcript) :
       \E c \in FulfilledOf(transcript[k].agentId, transcript[k].round) :
         transcript[k].response = Flatten(calls[c].parts)
  /\ \A c \in DOMAIN calls :
       TimedOut(c) =>
         /\ \A i \in 1..Len(events) :
              ~(/\ events[i].type = "agent_done"
                /\ events[i].agentId = calls[c].agentId
                /\ events[i].round = calls[c].round)
         /\ \A k \in 1..Len(transcript) :
              ~(/\ transcript[k].agentId = calls[c].agentId
                /\ transcript[k].round = calls[c].round)
         /\ calls[c].round = 0 => ~HasEvent("synthesis_done", 0)

\* C37: after an invocation has timed out, the abandoned call has no further
\* effect on the run: the fragments it delivers later and its end or failure
\* append no transcript entry, emit no event, and change no response text
\* recorded for another panelist turn or for the synthesis.
C37_NoLateEffect ==
  /\ [][LateStepInert /\ OthersUntouched]_vars
  /\ []RecordedFromOwnCall

\* the run ended with roundtable_done; the stream of a round-1 call that timed
\* out went on to deliver both its fragments and has ended
C37_Witness ==
  /\ pc = "done"
  /\ HasEvent("roundtable_done", 0)
  /\ abandoned = 0
  /\ \E c \in DOMAIN calls :
       /\ TimedOut(c)
       /\ calls[c].round = 1
       /\ calls[c].parts = <<<<"a">>, <<"b">>>>
  /\ Len(transcript) >= 2

\* ------------------------------------------------------------------- C38
\* the text the terminal was given while it rendered the events j..k
WrittenText(j, k) ==
  LET sel == SelectSeq(terminal.out,
                       LAMBDA w : w.kind = "text" /\ w.at >= j /\ w.at <= k)
  IN Flatten([i \in 1..Len(sel) |-> sel[i].text])

\* the event that opened the turn or the synthesis which the event at k ends
OpenedAt(k) ==
  CHOOSE j \in 1..k :
    /\ events[j].type \in {"agent_start", "synthesis_start"}
    /\ \A m \in (j + 1)..(k - 1) :
         events[m].type \notin {"agent_start", "synthesis_start"}

\* C38: when renderToTerminal consumes the stream of runRoundtable, every
\* response text the engine delivers, the fullResponse of every agent_done
\* event in round 1 and in the later rounds and the answer of synthesis_done,
\* is written to the terminal exactly once, as its chunks or as the full text.
C38_ResponsesWritten ==
  caller.entry = "cli" =>
    \A k \in 1..terminal.rendered :
      events[k].type \in {"agent_done", "synthesis_done"} =>
        WrittenText(OpenedAt(k), k) = events[k].text

\* the renderer has been through a round-1 turn whose response it wrote once,
\* as the two fragments replayed between agent_start and agent_done
C38_Witness ==
  /\ caller.entry = "cli"
  /\ \E k \in 1..terminal.rendered :
       /\ events[k].type = "agent_done"
       /\ events[k].round = 1
       /\ events[k].text = <<"a", "b">>
       /\ WrittenText(OpenedAt(k), k) = <<"a", "b">>
       /\ WrittenText(1, Len(events)) = <<"a", "b">>

\* ------------------------------------------------------------------- C39
HandledOfType(t) == SelectSeq(recorder.handled, LAMBDA e : e.type = t)

\* what getDiscussion reads back against the events handled so far
StoreMatchesEvents ==
  LET read == getDiscussion(recorder)
      dones == HandledOfType("agent_done")
  IN /\ Len(read.messages) = Len(dones)
     /\ \A i \in 1..Len(dones) :
          /\ read.messages[i].agentId = dones[i].agentId
          /\ read.messages[i].agentName = dones[i].agentName
          /\ read.messages[i].round = dones[i].round
          /\ read.messages[i].content = dones[i].text
          /\ read.messages[i].model = dones[i].model
     /\ read.discussion.synthesis # <<>> <=> HandledOfType("synthesis_done") # <<>>
     /\ read.discussion.synthesis # <<>> =>
          read.discussion.synthesis[1] = HandledOfType("synthesis_done")[1].text
     /\ read.discussion.totals # <<>> <=> HandledOfType("roundtable_done") # <<>>
     /\ read.discussion.totals # <<>> =>
          read.discussion.totals[1] =
            HandledOfType("roundtable_done")[1].stats.totalTokensEstimate

\* a call of handleEvent with an event of another type changes no row
OtherEventsIgnored ==
  (/\ Len(recorder'.handled) = Len(recorder.handled) + 1
   /\ recorder'.handled[Len(recorder'.handled)].type
        \notin {"agent_done", "synthesis_done", "roundtable_done"}) =>
    getDiscussion(recorder') = getDiscussion(recorder)

\* C39: the persisted history is a function of the event stream: the messages
\* rows read back in insertion order are the agent_done events in emission
\* order (agentId, agentName, round, fullResponse, model); the synthesis
\* column is set iff a synthesis_done event occurred; the duration and token
\* totals are set iff roundtable_done occurred; handleEvent leaves the store
\* unchanged for every other event type; and when the caller returns the
\* events handled are the events of the run.
C39_History ==
  /\ []StoreMatchesEvents
  /\ [][OtherEventsIgnored]_vars
  /\ [](caller.stage = "returned" => recorder.handled = events)

\* the tool has returned from a run whose synthesis failed: three messages
\* rows of two rounds, one turn having failed, and no synthesis and no totals
C39_Witness ==
  /\ caller.entry = "mcp"
  /\ caller.stage = "returned"
  /\ Len(recorder.messages) = 3
  /\ recorder.messages[3].round = 2
  /\ recorder.synthesis = <<>>
  /\ recorder.totals = <<>>
  /\ Len(HandledOfType("error")) = 2

\* ------------------------------------------------------------------- C40
LogOf(op) == SelectSeq(retry.log, LAMBDA e : e.op = op)

\* the delay the claim gives for the wait after attempt i
ClaimedWait(i) ==
  CASE i = 0 -> 500
    [] i = 1 -> 1000
    [] i = 2 -> 2000
    [] OTHER -> 4000

\* fn is called for attempts 0, 1, 2, ... and at most maxRetries + 1 times
BoundedCalls ==
  /\ Len(LogOf("call")) <= retry.maxRetries + 1
  /\ \A i \in 1..Len(LogOf("call")) : LogOf("call")[i].attempt = i - 1

\* a call of fn is made only when every earlier call has been rejected
OneAtATime ==
  /\ retry.running \in {0, 1}
  /\ retry.running = 1 <=>
       (retry.log # <<>> /\ retry.log[Len(retry.log)].op = "call")
  /\ \A k \in 1..Len(retry.log) :
       retry.log[k].op = "call" =>
         /\ Len(SelectSeq(SubSeq(retry.log, 1, k), LAMBDA e : e.op = "reject")) =
              retry.log[k].attempt
         /\ k < Len(retry.log) =>
              /\ retry.log[k + 1].op \in {"resolve", "reject"}
              /\ retry.log[k + 1].attempt = retry.log[k].attempt

\* the first fulfilled attempt ends the function with its value
FirstSuccessReturned ==
  /\ \A k \in 1..Len(retry.log) :
       retry.log[k].op = "resolve" =>
         /\ k = Len(retry.log)
         /\ retry.pc = "returned"
         /\ retry.settled = <<"return", retry.log[k].what>>
  /\ retry.pc = "returned" => LogOf("resolve") # <<>>

\* after maxRetries + 1 rejected attempts the last error is thrown
LastErrorRethrown ==
  retry.pc = "thrown" =>
    /\ LogOf("resolve") = <<>>
    /\ Len(LogOf("call")) = retry.maxRetries + 1
    /\ Len(LogOf("reject")) = Len(LogOf("call"))
    /\ retry.settled[1] = "throw"
    /\ LogOf("reject") # <<>> =>
         /\ retry.settled[2] = <<LogOf("reject")[Len(LogOf("reject"))].what>>
         /\ retry.log[Len(retry.log)].op = "reject"

\* one wait after each rejected attempt but the last permitted one, of the
\* claimed length, before the next call
BackoffWaits ==
  /\ \A k \in 1..Len(retry.log) :
       /\ retry.log[k].op = "wait" =>
            /\ retry.log[k].ms = ClaimedWait(retry.log[k].attempt)
            /\ retry.log[k].attempt < retry.maxRetries
            /\ retry.log[k - 1].op = "reject"
            /\ retry.log[k - 1].attempt = retry.log[k].attempt
            /\ k < Len(retry.log) =>
                 /\ retry.log[k + 1].op = "call"
                 /\ retry.log[k + 1].attempt = retry.log[k].attempt + 1
       /\ (retry.log[k].op = "call" /\ retry.log[k].attempt > 0) =>
            retry.log[k - 1].op = "wait"
  /\ retry.pc = "delay" =>
       (retry.log # <<>> /\ retry.log[Len(retry.log)].op = "wait")

\* C40: withRetry(fn, maxRetries) calls fn at most maxRetries + 1 times (4 by
\* default), strictly one attempt at a time; it returns the value of the
\* first attempt that succeeds and makes no further attempt after it; if
\* every attempt fails it rethrows the error of the last attempt; between
\* attempt i and i+1 it waits BACKOFF_MS[i] (500, 1000, 2000, then 4000 ms)
\* and it does not wait after the final failed attempt.
C40_Retry ==
  /\ BoundedCalls
  /\ OneAtATime
  /\ FirstSuccessReturned
  /\ LastErrorRethrown
  /\ BackoffWaits

\* withRetry(fn) with the default maxRetries has thrown after four failed
\* attempts, the last with another error than the one before, and has
\* waited 500, 1000 and 2000 ms
C40_Witness ==
  /\ retry.pc = "thrown"
  /\ retry.maxRetries = 3
  /\ Len(LogOf("call")) = 4
  /\ LogOf("reject")[3].what = "e429"
  /\ retry.settled = <<"throw", <<"e500">>>>
  /\ [i \in 1..Len(LogOf("wait")) |-> LogOf("wait")[i].ms] = <<500, 1000, 2000>>
====
